---------------------------- MODULE Spec2Model ----------------------------
(***************************************************************************)
(* Model of the AI Bridge broker (vscode-extension/server/server.js) and   *)
(* of the producer-side retry discipline of the content script.            *)
(*                                                                         *)
(* The broker is a single event-driven process: every callback (a          *)
(* WebSocket 'connection', 'message', 'close' or 'error' event, an express *)
(* middleware, an express route handler) runs to completion, so each one   *)
(* is one action.                                                          *)
(*                                                                         *)
(* JavaScript values that the code inspects with typeof, truthiness or     *)
(* .length are records [t, n, s]: t is the typeof tag, n is twice the      *)
(* numeric value of a number (so that 1.5 is representable) or the length  *)
(* of a string, s is the content of a string that the code compares.       *)
(* Prompt texts are compared by no code path, so they carry a length only. *)
(***************************************************************************)
EXTENDS Integers, Sequences, FiniteSets, TLC

(***************************************************************************)
(* Bounds of the model.                                                    *)
(***************************************************************************)
MaxSteps == 5
MaxTargetId == 3
MaxSendSteps == 3
MaxFrameSteps == 5
MaxDiagSteps == 4
MaxLifeSteps == 3
MaxRateRequests == 12
MaxRateTicks == 2
MaxOtherRequests == 1
MaxRetryConns == 1
MaxRetryTicks == 5
MaxExecTicks == 3
MaxOriginSteps == 3
MaxWindows == 2
MaxFaultSteps == 3
MaxSubmits == 11
MaxSubmitTicks == 1
MaxLimiterArrivals == 12
MaxLimiterTicks == 1
MaxWindowTicks == 2

(***************************************************************************)
(* Program constants.                                                      *)
(***************************************************************************)
MaxPromptLength == 100000
ConsumerMaxPromptLength == 50000
MaxConnectionAttempts == 5
ReconnectDelay == 5000
ConnectDelay == 1000
MaxRejectConns == 2
MaxRejectTicks == 2
MaxSockets == 5
MaxManualCommands == 2
MaxCommandSockets == 2
MaxCommands == 1
MaxAccepts == 1
MaxDeliverySockets == 2
MaxDeliveries == 1
MaxFrameSize == 1048576
WelcomeBaseLength == 132
PromptEnvelopeBaseLength == 159
PolicyViolation == 1008
NormalClosure == 1000
ForceExitMs == 10000
MaxRequests == 10
WindowMs == 1000
MaxAttempts == 3
BaseDelay == 1000
FetchTimeoutMs == 5000
JitterBound == 500
StartupTimeoutMs == 10000
PromptMaxRequests == 10
PromptWindowMs == 60000

(***************************************************************************)
(* JavaScript values.                                                      *)
(***************************************************************************)
Undefined == [t |-> "undefined", n |-> 0, s |-> ""]
Null == [t |-> "null", n |-> 0, s |-> ""]
Num(twice) == [t |-> "number", n |-> twice, s |-> ""]
Int2(i) == Num(2 * i)
Str(len) == [t |-> "string", n |-> len, s |-> ""]
Text(s, len) == [t |-> "string", n |-> len, s |-> s]

Truthy(v) ==
    CASE v.t = "undefined" -> FALSE
      [] v.t = "null" -> FALSE
      [] v.t = "number" -> v.n # 0
      [] v.t = "string" -> v.n > 0
      [] OTHER -> TRUE

Or(v, default) == IF Truthy(v) THEN v ELSE default

RECURSIVE Digits(_)
Digits(k) == IF k < 10 THEN 1 ELSE 1 + Digits(k \div 10)

VARIABLES
    clock,            \* Date.now(), in milliseconds
    ticks,            \* number of clock advances so far
    clientIdCounter,  \* let clientIdCounter
    vsCodeClients,    \* the Map, as the sequence of its entries in insertion order
    conns,            \* every WebSocket the acceptor was handed, in arrival order
    nFrames,          \* inbound frames handled so far
    nSends,           \* POST /api/send requests handled so far
    resp,             \* the request and response of the last POST /api/send
    requests,         \* rateLimiter.requests: identifier -> admitted timestamps
    httpLog,          \* what the security middleware decided, per caller, request by request
    prod,             \* the producer's sendToAI and its retry loop
    net,              \* the HTTP exchanges the producer has started
    diag,             \* the body of the last diagnostics response
    wssState,         \* the acceptor: RUNNING, CLOSING or CLOSED
    httpServerState,  \* the HTTP listener: listening, closing or closed
    proc,             \* the process: running, or exited with a code
    forceExitAt,      \* when the forced-exit timer is due (0: not armed)
    exec,             \* one run of retryHandler.execute(fn) in the content script
    windows,          \* the extension in each VS Code window: activation and serverProcess
    brokers,          \* the server processes the windows have spawned, in spawn order
    promptRateLimiter,\* promptRateLimiter.requests of the consumer: recorded times
    prompts,          \* what handlePrompt decided, prompt by prompt
    ext,              \* the consumer's isActivated, ws and connectionAttempts
    sockets,          \* every WebSocket connectToServer has created, in creation order
    timers,           \* when each pending setTimeout of the consumer is due
    extLog            \* the lines the commands and the open and close handlers have logged

vars == <<clock, ticks, clientIdCounter, vsCodeClients, conns, nFrames, nSends, resp,
          requests, httpLog, prod, net, diag, wssState, httpServerState, proc,
          forceExitAt, exec, windows, brokers, promptRateLimiter, prompts,
          ext, sockets, timers, extLog>>

httpVars == <<requests, httpLog>>
prodVars == <<prod, net>>
windowVars == <<windows, brokers>>
lifeVars == <<wssState, httpServerState, proc, forceExitAt>>
promptVars == <<promptRateLimiter, prompts>>
consumerVars == <<ext, sockets, timers, extLog>>
extVars == <<exec, windowVars, promptVars, consumerVars>>
sysVars == <<diag, lifeVars, extVars>>

AllowedWsAddresses == {"127.0.0.1", "::1", "::ffff:127.0.0.1"}
RemoteAddresses == {"::ffff:127.0.0.1", "192.168.1.7"}

NoResp == [req |-> [prompt |-> Undefined, url |-> Undefined, host |-> <<>>,
                    targetClientId |-> Undefined, sub |-> 0],
           status |-> 0, error |-> "", success |-> FALSE, clientCount |-> 0,
           targetClientId |-> Null]

\* req.ip of the HTTP callers.  A key the Map does not hold yet reads as the
\* empty list, which is what isAllowed stores for it before anything else.
HttpIps == {"127.0.0.1", "192.168.1.7"}

Idle == [phase |-> "idle", attempt |-> 0, deadline |-> 0, target |-> Undefined]

NoDiag == [route |-> ""]

Running == [state |-> "running", code |-> 0]

NotExecuting ==
    [phase |-> "idle", attempt |-> 0, calls |-> 0, lastError |-> "", due |-> 0,
     settled |-> ""]

WindowIds == 1..MaxWindows

NotActivated == [state |-> "inactive", serverProcess |-> 0, deadline |-> 0]

Init ==
    /\ clock = 1
    /\ ticks = 0
    /\ clientIdCounter = 1
    /\ vsCodeClients = <<>>
    /\ conns = <<>>
    /\ nFrames = 0
    /\ nSends = 0
    /\ resp = NoResp
    /\ requests = [identifier \in HttpIps |-> <<>>]
    /\ httpLog = [ip \in HttpIps |-> <<>>]
    /\ prod = Idle
    /\ net = <<>>
    /\ diag = NoDiag
    /\ wssState = "RUNNING"
    /\ httpServerState = "listening"
    /\ proc = Running
    /\ forceExitAt = 0
    /\ exec = NotExecuting
    /\ windows = [w \in WindowIds |-> NotActivated]
    /\ brokers = <<>>
    /\ promptRateLimiter = <<>>
    /\ prompts = <<>>
    /\ ext = [isActivated |-> FALSE, lifecycle |-> "loaded", starting |-> FALSE,
              ws |-> 0, connectionAttempts |-> 0, commands |-> 0]
    /\ sockets = <<>>
    /\ timers = <<>>
    /\ extLog = <<>>

(***************************************************************************)
(* Time passes.                                                            *)
(***************************************************************************)
Tick(d) ==
    /\ clock' = clock + d
    /\ ticks' = ticks + 1
    /\ UNCHANGED <<clientIdCounter, vsCodeClients, conns, nFrames, nSends, resp>>
    /\ UNCHANGED <<httpVars, prodVars, sysVars>>

(***************************************************************************)
(* The Map operations the code uses.                                       *)
(***************************************************************************)
Ids(clients) == {clients[i].id : i \in 1..Len(clients)}

MapIndex(clients, id) ==
    IF \E i \in 1..Len(clients) : clients[i].id = id
    THEN CHOOSE i \in 1..Len(clients) : clients[i].id = id
    ELSE 0

MapSet(clients, id, entry) ==
    IF MapIndex(clients, id) = 0
    THEN Append(clients, entry)
    ELSE [clients EXCEPT ![MapIndex(clients, id)] = entry]

\* An unregistration that leaves the entry in place.
MapKeep(clients, id) == clients

MapDelete(clients, id) == SelectSeq(clients, LAMBDA e : e.id # id)

(***************************************************************************)
(* wss.on('connection'): the id is taken from the counter, the remote      *)
(* address is checked, and only then the client is stored and welcomed.    *)
(***************************************************************************)
\* A counter that is read but never advanced.
NextCounterStuck(counter) == counter

NextCounter(counter) == counter + 1

WelcomeLength(clientId) == WelcomeBaseLength + Digits(clientId)

\* A welcome that reads the counter after it has moved on.
WelcomeMsgOfCounter(clientId) ==
    [type |-> "connection", clientId |-> clientId + 1, req |-> 0, sub |-> 0,
     length |-> WelcomeLength(clientId + 1)]

WelcomeMsg(clientId) ==
    [type |-> "connection", clientId |-> clientId, req |-> 0, sub |-> 0,
     length |-> WelcomeLength(clientId)]

\* The acceptor using the page-origin policy, which lets private ranges in.
IsAllowedOrPrivate(clientIp) == clientIp \in AllowedWsAddresses \cup {"192.168.1.7"}

IsAllowedWsAddress(clientIp) == clientIp \in AllowedWsAddresses

Connection(clientIp) ==
    /\ LET clientId == clientIdCounter
           ws == Len(conns) + 1
           clientInfo == [id |-> clientId,
                          connectedAt |-> clock,
                          lastActive |-> clock,
                          workspace |-> Text("Unknown", 7),
                          workspacePath |-> Null,
                          activeFile |-> Null,
                          messageCount |-> 0,
                          bytesSent |-> 0,
                          bytesReceived |-> 0]
       IN  /\ clientIdCounter' = NextCounter(clientIdCounter)
           /\ IF ~IsAllowedWsAddress(clientIp)
              THEN /\ conns' = Append(conns,
                          [remoteAddress |-> clientIp, clientId |-> clientId,
                           readyState |-> "CLOSING", closeCode |-> PolicyViolation,
                           handlers |-> FALSE, sent |-> <<>>])
                   /\ UNCHANGED vsCodeClients
              ELSE /\ conns' = Append(conns,
                          [remoteAddress |-> clientIp, clientId |-> clientId,
                           readyState |-> "OPEN", closeCode |-> 0,
                           handlers |-> TRUE,
                           sent |-> <<WelcomeMsg(clientId)>>])
                   /\ vsCodeClients' = MapSet(vsCodeClients, clientId,
                          [id |-> clientId, ws |-> ws,
                           info |-> [clientInfo EXCEPT
                                        !.bytesSent = WelcomeLength(clientId)]])
    /\ UNCHANGED <<clock, ticks, nFrames, nSends, resp>>
    /\ UNCHANGED <<httpVars, prodVars, sysVars>>

(***************************************************************************)
(* ws.on('message'): the byte counter moves first; an oversized frame, a   *)
(* frame that JSON.parse rejects and a frame without a string type throw   *)
(* into the catch, which only logs.                                        *)
(***************************************************************************)
Frame(size, parses, type, hasData, workspace, workspacePath, activeFile) ==
    [size |-> size, parses |-> parses, type |-> type, hasData |-> hasData,
     workspace |-> workspace, workspacePath |-> workspacePath,
     activeFile |-> activeFile]

Frames ==
    { Frame(20, TRUE, Text("heartbeat", 9), FALSE, Undefined, Undefined, Undefined),
      Frame(90, TRUE, Text("client-info", 11), TRUE,
            Text("projA", 5), Text("/home/projA", 11), Text("main.js", 7)),
      Frame(50, TRUE, Text("client-info", 11), TRUE,
            Undefined, Undefined, Text("util.js", 7)),
      Frame(70, TRUE, Text("client-info", 11), TRUE, Text("projB", 5), Null, Null),
      Frame(22, TRUE, Text("client-info", 11), FALSE, Undefined, Undefined, Undefined),
      Frame(15, TRUE, Text("status", 6), FALSE, Undefined, Undefined, Undefined),
      Frame(12, TRUE, Undefined, FALSE, Undefined, Undefined, Undefined),
      Frame(10, TRUE, Int2(7), FALSE, Undefined, Undefined, Undefined),
      Frame(11, TRUE, Text("", 0), FALSE, Undefined, Undefined, Undefined),
      Frame(9, FALSE, Undefined, FALSE, Undefined, Undefined, Undefined),
      Frame(MaxFrameSize + 1, TRUE, Text("heartbeat", 9), FALSE,
            Undefined, Undefined, Undefined) }

\* The frames that matter to routing: a heartbeat, a client-info, a malformed one.
RouteFrames == {f \in Frames : f.size \in {20, 90, 12}}

FrameThrows(frame) ==
    \/ frame.size > MaxFrameSize
    \/ ~frame.parses
    \/ ~Truthy(frame.type)
    \/ frame.type.t # "string"

\* A client-info that keeps the old value of a field the frame does not carry.
OnClientInfoMerging(info, frame, now) ==
    IF frame.hasData
    THEN [info EXCEPT
            !.workspace = Or(frame.workspace, @),
            !.workspacePath = Or(frame.workspacePath, @),
            !.activeFile = Or(frame.activeFile, @),
            !.lastActive = now]
    ELSE info

OnClientInfo(info, frame, now) ==
    IF frame.hasData
    THEN [info EXCEPT
            !.workspace = Or(frame.workspace, Text("Unknown", 7)),
            !.workspacePath = Or(frame.workspacePath, Null),
            !.activeFile = Or(frame.activeFile, Null),
            !.lastActive = now]
    ELSE info

\* A heartbeat that starts the client's record afresh.
OnHeartbeatReset(info, now) ==
    [info EXCEPT !.lastActive = now, !.workspace = Text("Unknown", 7),
                 !.workspacePath = Null, !.activeFile = Null]

OnHeartbeat(info, now) == [info EXCEPT !.lastActive = now]

\* A handler that notes the activity before it looks at the frame.
OnMessageTouching(clientInfo, frame, now) ==
    LET counted == [clientInfo EXCEPT !.bytesReceived = @ + frame.size,
                                      !.lastActive = now]
    IN  IF FrameThrows(frame) THEN counted
        ELSE LET handled ==
                   IF frame.type.s = "client-info"
                   THEN OnClientInfo(counted, frame, now)
                   ELSE IF frame.type.s = "heartbeat"
                        THEN OnHeartbeat(counted, now)
                        ELSE counted
             IN  [handled EXCEPT !.messageCount = @ + 1]

OnMessage(clientInfo, frame, now) ==
    LET counted == [clientInfo EXCEPT !.bytesReceived = @ + frame.size]
    IN  IF FrameThrows(frame) THEN counted
        ELSE LET handled ==
                   IF frame.type.s = "client-info"
                   THEN OnClientInfo(counted, frame, now)
                   ELSE IF frame.type.s = "heartbeat"
                        THEN OnHeartbeat(counted, now)
                        ELSE counted
             IN  [handled EXCEPT !.messageCount = @ + 1]

Message(c, frame) ==
    /\ conns[c].handlers
    /\ conns[c].readyState = "OPEN"
    /\ nFrames' = nFrames + 1
    /\ LET i == MapIndex(vsCodeClients, conns[c].clientId)
       IN  vsCodeClients' =
               IF i = 0 THEN vsCodeClients
               ELSE [vsCodeClients EXCEPT ![i].info = OnMessage(@, frame, clock)]
    /\ UNCHANGED <<clock, ticks, clientIdCounter, conns, nSends, resp>>
    /\ UNCHANGED <<httpVars, prodVars, sysVars>>

(***************************************************************************)
(* The connection's life in the WebSocket library: a closing handshake     *)
(* leaves readyState at CLOSING until the socket is gone and 'close' is    *)
(* emitted; an 'error' is emitted on a socket that is being torn down.     *)
(***************************************************************************)
BeginClose(c) ==
    /\ conns[c].readyState = "OPEN"
    /\ conns' = [conns EXCEPT ![c].readyState = "CLOSING"]
    /\ UNCHANGED <<clock, ticks, clientIdCounter, vsCodeClients, nFrames, nSends, resp>>
    /\ UNCHANGED <<httpVars, prodVars, sysVars>>

OnClose(c) ==
    /\ conns[c].readyState \in {"OPEN", "CLOSING"}
    /\ conns' = [conns EXCEPT ![c].readyState = "CLOSED"]
    /\ vsCodeClients' = IF conns[c].handlers
                        THEN MapDelete(vsCodeClients, conns[c].clientId)
                        ELSE vsCodeClients
    /\ UNCHANGED <<clock, ticks, clientIdCounter, nFrames, nSends, resp>>
    /\ UNCHANGED <<httpVars, prodVars, sysVars>>

OnError(c) ==
    /\ conns[c].handlers
    /\ conns[c].readyState = "OPEN"
    /\ conns' = [conns EXCEPT ![c].readyState = "CLOSING"]
    /\ vsCodeClients' = MapDelete(vsCodeClients, conns[c].clientId)
    /\ UNCHANGED <<clock, ticks, clientIdCounter, nFrames, nSends, resp>>
    /\ UNCHANGED <<httpVars, prodVars, sysVars>>

(***************************************************************************)
(* SecurityValidator.  A throwing validator is modelled by the message it  *)
(* throws, "" standing for a normal return.                                *)
(***************************************************************************)
\* The length ceiling off by one.
ValidatePromptBelow(prompt) ==
    IF ~Truthy(prompt) \/ prompt.t # "string"
    THEN "VALIDATION: Prompt field is required and must be a string"
    ELSE IF prompt.n >= MaxPromptLength
         THEN "VALIDATION: Prompt exceeds 100KB limit"
         ELSE ""

ValidatePrompt(prompt) ==
    IF ~Truthy(prompt) \/ prompt.t # "string"
    THEN "VALIDATION: Prompt field is required and must be a string"
    ELSE IF prompt.n = 0
         THEN "VALIDATION: Prompt cannot be empty"
         ELSE IF prompt.n > MaxPromptLength
              THEN "VALIDATION: Prompt exceeds 100KB limit"
              ELSE ""

ValidateClientId(clientId) ==
    IF clientId.t # "number" \/ clientId.n < 2
    THEN "VALIDATION: Invalid client ID"
    ELSE ""

(***************************************************************************)
(* A URL is the host name that new URL(url).hostname yields, as its        *)
(* sequence of dot-separated labels; <<>> is a string that new URL rejects.*)
(* A label is a name or a decimal number.                                  *)
(***************************************************************************)
Name(s) == [num |-> FALSE, v |-> 0, s |-> s]
Oct(v) == [num |-> TRUE, v |-> v, s |-> ""]

LocalhostNames ==
    { <<Name("localhost")>>, <<Oct(127), Oct(0), Oct(0), Oct(1)>>,
      <<Name("::1")>>, <<Name("[::1]")>> }

Digits3(label) == label.num /\ label.v <= 999

IsLocalWebpageUrl(url, host) ==
    IF ~Truthy(url) THEN TRUE
    ELSE IF host = <<>> THEN FALSE
    ELSE IF host \in LocalhostNames THEN TRUE
    ELSE IF Len(host) >= 2 /\ host[Len(host)] = Name("local") THEN TRUE
    ELSE IF Len(host) = 4 /\ host[1] = Oct(192) /\ host[2] = Oct(168)
            /\ Digits3(host[3]) /\ Digits3(host[4]) THEN TRUE
    ELSE IF Len(host) = 4 /\ host[1] = Oct(10)
            /\ Digits3(host[2]) /\ Digits3(host[3]) /\ Digits3(host[4]) THEN TRUE
    ELSE IF Len(host) = 4 /\ host[1] = Oct(172)
            /\ host[2].num /\ host[2].v \in 16..31
            /\ Digits3(host[3]) /\ Digits3(host[4]) THEN TRUE
    ELSE FALSE

(***************************************************************************)
(* vsCodeClients.get(targetClientId): Map keys are the integer ids.        *)
(***************************************************************************)
MapGet(clients, key) ==
    IF key.t = "number" /\ key.n % 2 = 0 THEN MapIndex(clients, key.n \div 2) ELSE 0

(***************************************************************************)
(* The forEach of the auto-route branch: entries are visited in insertion  *)
(* order, and an entry replaces the candidate when its lastActive is       *)
(* later than the candidate's (new Date(0) to begin with).                 *)
(***************************************************************************)
\* A candidate that is replaced by an entry that is merely as recent.
IsAtLeastAsRecent(activeTime, mostRecentTime) == activeTime >= mostRecentTime

IsMoreRecent(activeTime, mostRecentTime) == activeTime > mostRecentTime

RECURSIVE MostRecentFrom(_, _, _, _)
MostRecentFrom(clients, i, mostRecent, mostRecentTime) ==
    IF i > Len(clients) THEN mostRecent
    ELSE IF IsMoreRecent(clients[i].info.lastActive, mostRecentTime)
         THEN MostRecentFrom(clients, i + 1, i, clients[i].info.lastActive)
         ELSE MostRecentFrom(clients, i + 1, mostRecent, mostRecentTime)

\* Routing to the first entry, whatever its lastActive.
FirstClient(clients) == IF Len(clients) = 0 THEN 0 ELSE 1

MostRecentClient(clients) == MostRecentFrom(clients, 1, 0, 0)

(***************************************************************************)
(* JSON.stringify of the prompt envelope: its length.                      *)
(***************************************************************************)
MessageLength(body) ==
    PromptEnvelopeBaseLength + 2 * body.prompt.n
        + (IF Truthy(body.url) THEN body.url.n ELSE 0)

\* A readiness test that takes a closing connection for a usable one.
IsNotClosed(cs, ws) == cs[ws].readyState # "CLOSED"

IsOpen(cs, ws) == cs[ws].readyState = "OPEN"

(***************************************************************************)
(* app.post('/api/send'): the response, and the registry entries (indices  *)
(* into the Map's entries) whose connection ws.send is called on.          *)
(***************************************************************************)
Response(status, error, clientCount, targetClientId, writeTo) ==
    [status |-> status, error |-> error, success |-> clientCount > 0,
     clientCount |-> clientCount, targetClientId |-> targetClientId,
     writeTo |-> writeTo]

RouteTargeted(body, clients, cs) ==
    IF ValidateClientId(body.targetClientId) # ""
    THEN Response(400, "INVALID_CLIENT_ID", 0, Null, {})
    ELSE LET client == MapGet(clients, body.targetClientId)
         IN  IF client # 0 /\ IsOpen(cs, clients[client].ws)
             THEN Response(200, "", 1, body.targetClientId, {client})
             ELSE Response(404, "CLIENT_NOT_FOUND", 0, Null, {})

\* The auto-route branch writing to every open connection.
RouteAutoBroadcast(body, clients, cs) ==
    LET mostRecentClient == MostRecentClient(clients)
        open == {i \in 1..Len(clients) : IsOpen(cs, clients[i].ws)}
    IN  IF open # {}
        THEN Response(200, "", 1, Int2(clients[mostRecentClient].id), open)
        ELSE Response(200, "", 0, Null, {})

\* The auto-route branch choosing among the clients whose connection is open.
RouteAutoAmongOpen(body, clients, cs) ==
    LET open == {i \in 1..Len(clients) : IsOpen(cs, clients[i].ws)}
        best == {i \in open : \A j \in open :
                    clients[j].info.lastActive <= clients[i].info.lastActive}
    IN  IF best # {}
        THEN LET i == CHOOSE x \in best : \A y \in best : x <= y
             IN  Response(200, "", 1, Int2(clients[i].id), {i})
        ELSE Response(200, "", 0, Null, {})

RouteAuto(body, clients, cs) ==
    LET mostRecentClient == MostRecentClient(clients)
    IN  IF mostRecentClient # 0 /\ IsOpen(cs, clients[mostRecentClient].ws)
        THEN Response(200, "", 1, Int2(clients[mostRecentClient].id), {mostRecentClient})
        ELSE Response(200, "", 0, Null, {})

\* The registry-size test left out.
NeverNoClients(clients) == FALSE

NoClients(clients) == Len(clients) = 0

\* The page-origin check made after the submission was routed.
SendResponseOriginLast(body, clients, cs) ==
    IF ValidatePrompt(body.prompt) # ""
    THEN Response(400, "VALIDATION_ERROR", 0, Null, {})
    ELSE IF Truthy(body.targetClientId) /\ ValidateClientId(body.targetClientId) # ""
    THEN Response(400, "VALIDATION_ERROR", 0, Null, {})
    ELSE IF NoClients(clients)
    THEN Response(503, "VS_CODE_NOT_CONNECTED", 0, Null, {})
    ELSE LET routed == IF Truthy(body.targetClientId)
                       THEN RouteTargeted(body, clients, cs)
                       ELSE RouteAuto(body, clients, cs)
         IN  IF Truthy(body.url) /\ ~IsLocalWebpageUrl(body.url, body.host)
             THEN Response(403, "SECURITY_ERROR", 0, Null, routed.writeTo)
             ELSE routed

SendResponse(body, clients, cs) ==
    IF ValidatePrompt(body.prompt) # ""
    THEN Response(400, "VALIDATION_ERROR", 0, Null, {})
    ELSE IF Truthy(body.url) /\ ~IsLocalWebpageUrl(body.url, body.host)
    THEN Response(403, "SECURITY_ERROR", 0, Null, {})
    ELSE IF Truthy(body.targetClientId) /\ ValidateClientId(body.targetClientId) # ""
    THEN Response(400, "VALIDATION_ERROR", 0, Null, {})
    ELSE IF NoClients(clients)
    THEN Response(503, "VS_CODE_NOT_CONNECTED", 0, Null, {})
    ELSE IF Truthy(body.targetClientId)
    THEN RouteTargeted(body, clients, cs)
    ELSE RouteAuto(body, clients, cs)

(***************************************************************************)
(* A request body.  sub is not part of the body: it names the producer     *)
(* submission the request was issued for (0: none), so that the envelopes  *)
(* one submission leads to can be counted.                                 *)
(***************************************************************************)
Body(prompt, url, host, targetClientId) ==
    [prompt |-> prompt, url |-> url, host |-> host,
     targetClientId |-> targetClientId, sub |-> 0]

NoUrl == <<Undefined, <<>>>>
LocalUrl == <<Str(22), <<Name("localhost")>>>>
PublicUrl == <<Str(20), <<Name("example"), Name("com")>>>>

Prompts == {Undefined, Str(0), Str(1), Str(MaxPromptLength),
            Str(MaxPromptLength + 1), Int2(5)}
Targets == {Undefined, Int2(0), Int2(1), Int2(2), Int2(0 - 1), Num(3), Text("1", 1)}

\* Submissions that pass validation: untargeted, or naming an integer id.
RouteBodies ==
    {Body(Str(1), NoUrl[1], NoUrl[2], t) :
        t \in {Undefined} \cup {Int2(i) : i \in 1..MaxTargetId}}

\* Submissions of every shape.
Bodies ==
    {Body(p, u[1], u[2], t) : p \in Prompts, u \in {NoUrl, LocalUrl, PublicUrl},
                              t \in Targets}

(***************************************************************************)
(* The two assignments that follow ws.send(message) in both branches.      *)
(***************************************************************************)
\* A dispatch that also counts as a message of the client.
DispatchedCounting(info, message, now) ==
    [info EXCEPT !.bytesSent = @ + message.length, !.lastActive = now,
                 !.messageCount = @ + 1]

\* A dispatch that counts the bytes and leaves the time of activity alone.
DispatchedBytesOnly(info, message, now) ==
    [info EXCEPT !.bytesSent = @ + message.length]

Dispatched(info, message, now) ==
    [info EXCEPT !.bytesSent = @ + message.length, !.lastActive = now]

\* What the handler answers when the ws.send it makes throws: the try around
\* the targeted branch catches it as an invalid client id, the auto-route
\* branch has only the handler's outer catch.
SendThrew(body, r) ==
    IF r.writeTo = {} THEN r
    ELSE IF Truthy(body.targetClientId)
    THEN Response(400, "INVALID_CLIENT_ID", 0, Null, {})
    ELSE Response(500, "INTERNAL_ERROR", 0, Null, {})

\* A write that jumps the queue of the connection.
WsSendAhead(sent, message) == <<message>> \o sent

\* ws.send(message): the frame is queued behind those written before it.
WsSend(sent, message) == Append(sent, message)

HandleSendWith(body, sendThrows) ==
    /\ nSends' = nSends + 1
    /\ LET routed == SendResponse(body, vsCodeClients, conns)
           r == IF sendThrows THEN SendThrew(body, routed) ELSE routed
           message == [type |-> "prompt", clientId |-> 0, req |-> nSends + 1,
                       sub |-> body.sub, length |-> MessageLength(body),
                       data |-> [prompt |-> body.prompt]]
       IN  /\ resp' = [req |-> body, status |-> r.status, error |-> r.error,
                       success |-> r.success, clientCount |-> r.clientCount,
                       targetClientId |-> r.targetClientId]
           /\ conns' = [c \in 1..Len(conns) |->
                          IF \E i \in r.writeTo : vsCodeClients[i].ws = c
                          THEN [conns[c] EXCEPT !.sent = WsSend(@, message)]
                          ELSE conns[c]]
           /\ vsCodeClients' = [i \in 1..Len(vsCodeClients) |->
                          IF i \in r.writeTo
                          THEN [vsCodeClients[i] EXCEPT
                                   !.info = Dispatched(@, message, clock)]
                          ELSE vsCodeClients[i]]
    /\ UNCHANGED <<clock, ticks, clientIdCounter, nFrames>>

HandleSend(body) == HandleSendWith(body, FALSE)

\* A request that the middleware has let through and express.json has parsed.
PostSend(body) ==
    /\ HandleSend(body)
    /\ UNCHANGED <<httpVars, prodVars, sysVars>>

\* The same request when the write to the chosen connection throws.
PostSendThrowing(body) ==
    /\ HandleSendWith(body, TRUE)
    /\ UNCHANGED <<httpVars, prodVars, sysVars>>

(***************************************************************************)
(* RateLimiter.isAllowed: the timestamps inside the window are counted; a  *)
(* refused check stores nothing, an admitted one stores the pruned list    *)
(* with the present time appended.                                         *)
(***************************************************************************)
RecentRequests(timestamps, now) ==
    SelectSeq(timestamps, LAMBDA t : t > now - WindowMs)

\* The ceiling tested one too late.
LimitExceeded(count) == count > MaxRequests

LimitReached(count) == count >= MaxRequests

IsAllowed(reqs, identifier, now) ==
    ~LimitReached(Len(RecentRequests(reqs[identifier], now)))

\* An admitted check that stores the whole list, old timestamps included.
AfterIsAllowedKeepingAll(reqs, identifier, now) ==
    IF IsAllowed(reqs, identifier, now)
    THEN [reqs EXCEPT ![identifier] = Append(@, now)]
    ELSE reqs

AfterIsAllowed(reqs, identifier, now) ==
    IF IsAllowed(reqs, identifier, now)
    THEN [reqs EXCEPT ![identifier] = Append(RecentRequests(@, now), now)]
    ELSE reqs

(***************************************************************************)
(* The first express middleware: the localhost test, then the limiter.     *)
(* A Host header is the sequence of its pieces, so that startsWith is a    *)
(* test of the first piece.  Status 0 stands for next().                   *)
(***************************************************************************)
AllowedHttpAddresses == {"127.0.0.1", "::1", "localhost", "::ffff:127.0.0.1"}

StartsWithLocalhost(host) == Len(host) >= 1 /\ host[1] = "localhost"

MiddlewareStatus(reqs, ip, host, now) ==
    IF ip \notin AllowedHttpAddresses /\ ~StartsWithLocalhost(host) THEN 403
    ELSE IF ~IsAllowed(reqs, ip, now) THEN 429
    ELSE 0

AfterMiddleware(reqs, ip, host, now) ==
    IF ip \notin AllowedHttpAddresses /\ ~StartsWithLocalhost(host) THEN reqs
    ELSE AfterIsAllowed(reqs, ip, now)

Middleware(ip, host) ==
    /\ httpLog' = [httpLog EXCEPT ![ip] =
                       Append(@, [ip |-> ip, time |-> clock,
                                  status |-> MiddlewareStatus(requests, ip, host, clock)])]
    /\ requests' = AfterMiddleware(requests, ip, host, clock)

\* A request of any route arrives.
HttpRequest(ip, host) ==
    /\ Middleware(ip, host)
    /\ UNCHANGED <<clock, ticks, clientIdCounter, vsCodeClients, conns, nFrames,
                   nSends, resp, prodVars, sysVars>>

Hosts == {<<"localhost", ":3000">>, <<"192.168.1.5", ":3000">>}

RateSteps == {1, WindowMs - 1, WindowMs}

Served(ip) == Len(httpLog[ip])

\* The arrivals so far: connections, timer ticks, frames and submissions.
Steps == Len(conns) + ticks + nFrames + nSends

Next ==
    \/ Steps < MaxSteps /\ Tick(1)
    \/ Steps < MaxSteps /\ \E clientIp \in RemoteAddresses : Connection(clientIp)
    \/ Steps < MaxSteps /\ \E c \in 1..Len(conns), frame \in RouteFrames : Message(c, frame)
    \/ \E c \in 1..Len(conns) : BeginClose(c)
    \/ \E c \in 1..Len(conns) : OnClose(c)
    \/ \E c \in 1..Len(conns) : OnError(c)
    \/ Steps < MaxSteps /\ \E body \in RouteBodies : PostSend(body)

Spec == Init /\ [][Next]_vars

(***************************************************************************)
(* The producer: sendToAI hands RetryHandler.execute an action that races  *)
(* fetch('/api/send') against a 5 s timer.  The timer rejects the race,    *)
(* it does not abort the fetch: the request of an abandoned attempt stays  *)
(* on its way to the broker.  An exchange is one such request: on its way  *)
(* ("request"), let through by the middleware and parsed ("parsed"),       *)
(* answered ("response"), and read by the producer ("read").               *)
(***************************************************************************)
RECURSIVE Pow2(_)
Pow2(k) == IF k = 0 THEN 1 ELSE 2 * Pow2(k - 1)

\* Math.random() * 500 lies in [0, 500): its least and greatest whole values.
Jitters == {0, JitterBound - 1}

BackoffDelay(attempt) == BaseDelay * Pow2(attempt - 1)

Exchange(attempt, target) ==
    [attempt |-> attempt,
     body |-> [Body(Str(1), LocalUrl[1], LocalUrl[2], target) EXCEPT !.sub = 1],
     stage |-> "request", status |-> 0, success |-> FALSE]

Fetching(attempt, target) ==
    [phase |-> "fetching", attempt |-> attempt, deadline |-> clock + FetchTimeoutMs,
     target |-> target]

\* sendToAI up to the first fetch; selectedClientId is an id that /api/clients listed.
StartSend(target) ==
    /\ prod.phase = "idle"
    /\ Truthy(target)
    /\ prod' = Fetching(1, target)
    /\ net' = Append(net, Exchange(1, target))
    /\ UNCHANGED <<clock, ticks, clientIdCounter, vsCodeClients, conns, nFrames,
                   nSends, resp, httpVars, sysVars>>

\* A catch that gives up at the first failure.
AfterFailureGivingUp(jitter) == [prod EXCEPT !.phase = "failed"]

\* The catch of RetryHandler.execute: wait and go round again, or give up.
AfterFailure(jitter) ==
    IF prod.attempt < MaxAttempts
    THEN [prod EXCEPT !.phase = "backoff",
                      !.deadline = clock + BackoffDelay(prod.attempt) + jitter]
    ELSE [prod EXCEPT !.phase = "failed"]

\* The 5 s timer wins the race.
FetchTimeout(jitter) ==
    /\ prod.phase = "fetching"
    /\ clock >= prod.deadline
    /\ prod' = AfterFailure(jitter)
    /\ UNCHANGED <<clock, ticks, clientIdCounter, vsCodeClients, conns, nFrames,
                   nSends, resp, httpVars, net, sysVars>>

\* The response of the running attempt wins the race.
Receive(k, jitter) ==
    /\ prod.phase = "fetching"
    /\ net[k].attempt = prod.attempt
    /\ net[k].stage = "response"
    /\ net' = [net EXCEPT ![k].stage = "read"]
    /\ prod' = IF net[k].status # 200 THEN AfterFailure(jitter)
               ELSE IF net[k].success THEN [prod EXCEPT !.phase = "sent"]
               ELSE [prod EXCEPT !.phase = "failed"]
    /\ UNCHANGED <<clock, ticks, clientIdCounter, vsCodeClients, conns, nFrames,
                   nSends, resp, httpVars, sysVars>>

\* The backoff timer fires: the next attempt's fetch.
BackoffElapsed ==
    /\ prod.phase = "backoff"
    /\ clock >= prod.deadline
    /\ prod' = Fetching(prod.attempt + 1, prod.target)
    /\ net' = Append(net, Exchange(prod.attempt + 1, prod.target))
    /\ UNCHANGED <<clock, ticks, clientIdCounter, vsCodeClients, conns, nFrames,
                   nSends, resp, httpVars, sysVars>>

\* Time passes until the producer's pending timer is due.
TickToDeadline ==
    /\ prod.phase \in {"fetching", "backoff"}
    /\ clock < prod.deadline
    /\ clock' = prod.deadline
    /\ ticks' = ticks + 1
    /\ UNCHANGED <<clientIdCounter, vsCodeClients, conns, nFrames, nSends, resp,
                   httpVars, prodVars, sysVars>>

\* The broker's middleware takes up the request of an exchange.
Admit(k) ==
    /\ net[k].stage = "request"
    /\ Middleware("127.0.0.1", <<"localhost", ":3000">>)
    /\ LET status == MiddlewareStatus(requests, "127.0.0.1", <<"localhost", ":3000">>, clock)
       IN  net' = IF status = 0
                  THEN [net EXCEPT ![k].stage = "parsed"]
                  ELSE [net EXCEPT ![k].stage = "response", ![k].status = status]
    /\ UNCHANGED <<clock, ticks, clientIdCounter, vsCodeClients, conns, nFrames,
                   nSends, resp, prod, sysVars>>

\* The broker's route handler answers it.
Handle(k) ==
    /\ net[k].stage = "parsed"
    /\ HandleSend(net[k].body)
    /\ net' = [net EXCEPT ![k].stage = "response", ![k].status = resp'.status,
                          ![k].success = resp'.success]
    /\ UNCHANGED <<httpVars, prod, sysVars>>

NextRetry ==
    \/ Len(conns) < MaxRetryConns /\ \E clientIp \in RemoteAddresses : Connection(clientIp)
    \/ \E c \in 1..Len(conns) : OnClose(c)
    \/ ticks < MaxRetryTicks /\ Tick(1)
    \/ ticks < MaxRetryTicks /\ TickToDeadline
    \/ \E c \in 1..Len(conns) : conns[c].handlers /\ StartSend(Int2(conns[c].clientId))
    \/ \E k \in 1..Len(net) : Admit(k)
    \/ \E k \in 1..Len(net) : Handle(k)
    \/ \E k \in 1..Len(net), jitter \in Jitters : Receive(k, jitter)
    \/ \E jitter \in Jitters : FetchTimeout(jitter)
    \/ BackoffElapsed

SpecRetry == Init /\ [][NextRetry]_vars

(***************************************************************************)
(* RetryHandler.execute(fn) on its own, for an action fn that resolves or  *)
(* rejects as it pleases.  exec.calls counts the invocations of fn,        *)
(* exec.due is the instant the pending backoff timer fires, exec.settled   *)
(* is the value execute returned or the error it threw.                    *)
(***************************************************************************)
brokerVars == <<clientIdCounter, vsCodeClients, conns, nFrames, nSends, resp, httpVars,
                prodVars, diag, lifeVars>>

FnErrors == {"Request timeout", "HTTP 429", "HTTP 500"}
FnValues == {"success", "no success"}

\* execute is called: the loop starts with attempt 1 and invokes fn.
Execute ==
    /\ exec.phase = "idle"
    /\ exec' = [exec EXCEPT !.phase = "calling", !.attempt = 1, !.calls = 1]
    /\ UNCHANGED <<clock, ticks, brokerVars, windowVars, promptVars, consumerVars>>

\* fn resolves: return await fn().
FnResolves(value) ==
    /\ exec.phase = "calling"
    /\ exec' = [exec EXCEPT !.phase = "returned", !.settled = value]
    /\ UNCHANGED <<clock, ticks, brokerVars, windowVars, promptVars, consumerVars>>

\* A catch that throws the error of the first failed attempt.
CaughtFirstError(error, jitter) ==
    LET first == IF exec.lastError = "" THEN error ELSE exec.lastError
    IN  IF exec.attempt < MaxAttempts
        THEN [exec EXCEPT !.phase = "waiting", !.lastError = first,
                          !.due = clock + BackoffDelay(exec.attempt) + jitter]
        ELSE [exec EXCEPT !.phase = "thrown", !.lastError = first, !.settled = first]

\* The catch block; after the last attempt the loop ends and lastError is thrown.
Caught(error, jitter) ==
    IF exec.attempt < MaxAttempts
    THEN [exec EXCEPT !.phase = "waiting", !.lastError = error,
                      !.due = clock + BackoffDelay(exec.attempt) + jitter]
    ELSE [exec EXCEPT !.phase = "thrown", !.lastError = error, !.settled = error]

\* fn rejects.
FnRejects(error, jitter) ==
    /\ exec.phase = "calling"
    /\ exec' = Caught(error, jitter)
    /\ UNCHANGED <<clock, ticks, brokerVars, windowVars, promptVars, consumerVars>>

\* The backoff timer fires: the next round of the loop invokes fn.
WaitElapsed ==
    /\ exec.phase = "waiting"
    /\ clock >= exec.due
    /\ exec' = [exec EXCEPT !.phase = "calling", !.attempt = @ + 1, !.calls = @ + 1]
    /\ UNCHANGED <<clock, ticks, brokerVars, windowVars, promptVars, consumerVars>>

\* Time passes until the backoff timer is due.
TickToDue ==
    /\ exec.phase = "waiting"
    /\ clock < exec.due
    /\ clock' = exec.due
    /\ ticks' = ticks + 1
    /\ UNCHANGED <<brokerVars, exec, windowVars, promptVars, consumerVars>>

NextExec ==
    \/ Execute
    \/ \E value \in FnValues : FnResolves(value)
    \/ \E error \in FnErrors, jitter \in Jitters : FnRejects(error, jitter)
    \/ WaitElapsed
    \/ ticks < MaxExecTicks /\ Tick(1)
    \/ ticks < MaxExecTicks /\ TickToDue

SpecExec == Init /\ [][NextExec]_vars

(***************************************************************************)
(* The extension in several VS Code windows.  activate spawns              *)
(* `node server.js` and waits until GET /api/health on port 3000 answers   *)
(* 200, whichever process answers it.  A server process that finds the     *)
(* ports taken gets EADDRINUSE, which nothing handles: it exits with       *)
(* code 1.  deactivate leaves the server process alone.                    *)
(***************************************************************************)
brokerAndExecVars == <<brokerVars, exec, promptVars, consumerVars>>

Serving == {p \in 1..Len(brokers) : brokers[p].state = "serving"}

\* startBridgeServer: spawn('node', [serverPath], ...).
Spawn(bs) == Append(bs, [state |-> "starting", code |-> 0])

\* activate up to the wait for the server.
Activate(w) ==
    /\ windows[w].state = "inactive"
    /\ brokers' = Spawn(brokers)
    /\ windows' = [windows EXCEPT ![w] =
                      [state |-> "starting",
                       serverProcess |-> Len(brokers'),
                       deadline |-> clock + StartupTimeoutMs]]
    /\ UNCHANGED <<clock, ticks, brokerAndExecVars>>

\* A spawned process binds ports 3000 and 3001, or fails to.
BrokerStart(p) ==
    /\ brokers[p].state = "starting"
    /\ brokers' = [brokers EXCEPT ![p] =
                      IF Serving = {} THEN [state |-> "serving", code |-> 0]
                      ELSE [state |-> "exited", code |-> 1]]
    /\ UNCHANGED <<clock, ticks, brokerAndExecVars, windows>>

\* waitForServerReady sees a 200 from /api/health.
Ready(w) ==
    /\ windows[w].state = "starting"
    /\ clock < windows[w].deadline
    /\ Serving # {}
    /\ windows' = [windows EXCEPT ![w].state = "active"]
    /\ UNCHANGED <<clock, ticks, brokerAndExecVars, brokers>>

\* waitForServerReady gives up: the window kills the process it spawned.
StartTimeout(w) ==
    /\ windows[w].state = "starting"
    /\ clock >= windows[w].deadline
    /\ windows' = [windows EXCEPT ![w].state = "failed"]
    /\ brokers' = IF windows[w].serverProcess # 0
                      /\ brokers[windows[w].serverProcess].state # "exited"
                   THEN [brokers EXCEPT ![windows[w].serverProcess] =
                            [state |-> "exited", code |-> 0]]
                   ELSE brokers
    /\ UNCHANGED <<clock, ticks, brokerAndExecVars>>

\* deactivate: the socket and the status bar go, the server stays.
Deactivate(w) ==
    /\ windows[w].state = "active"
    /\ windows' = [windows EXCEPT ![w].state = "deactivated"]
    /\ UNCHANGED <<clock, ticks, brokerAndExecVars, brokers>>

NextWindows ==
    \/ \E w \in WindowIds : Activate(w)
    \/ \E p \in 1..Len(brokers) : BrokerStart(p)
    \/ \E w \in WindowIds : Ready(w)
    \/ \E w \in WindowIds : StartTimeout(w)
    \/ \E w \in WindowIds : Deactivate(w)
    \/ ticks < MaxWindowTicks /\ Tick(StartupTimeoutMs)

SpecWindows == Init /\ [][NextWindows]_vars

(***************************************************************************)
(* The consumer's limiter, new RateLimiter(10, 60000), and handlePrompt.   *)
(* handlePrompt is an async function: it runs synchronously up to its      *)
(* first await (tryOpenAIChat), which comes after the check and the        *)
(* record, so calls for prompts that arrive while earlier ones are still   *)
(* being delivered interleave only after that point; what follows the      *)
(* await reads the local `remaining` and never the limiter.                *)
(***************************************************************************)
Max(a, b) == IF a >= b THEN a ELSE b

\* this.requests.filter(time => now - time < this.windowMs)
Filtered(reqs, now) == SelectSeq(reqs, LAMBDA time : now - time < PromptWindowMs)

\* The ceiling tested one too late.
BelowOrAtCeiling(count) == count <= PromptMaxRequests

BelowCeiling(count) == count < PromptMaxRequests

CanMakeRequest(reqs, now) == BelowCeiling(Len(Filtered(reqs, now)))

RecordRequest(reqs, now) == Append(reqs, now)

GetRemainingRequests(reqs, now) == Max(0, PromptMaxRequests - Len(Filtered(reqs, now)))

Oldest(reqs) == CHOOSE t \in {reqs[i] : i \in 1..Len(reqs)} :
                    \A i \in 1..Len(reqs) : t <= reqs[i]

\* A reset time that leaves the window length out.
GetResetTimeOfOldest(reqs, now) ==
    IF Len(reqs) = 0 THEN 0
    ELSE Max(0, Oldest(reqs) - now)

\* getResetTime reads this.requests as the last filter left it.
GetResetTime(reqs, now) ==
    IF Len(reqs) = 0 THEN 0
    ELSE Max(0, Oldest(reqs) + PromptWindowMs - now)

\* handlePrompt up to its first await.
RateLimitCheck ==
    LET filtered == Filtered(promptRateLimiter, clock)
       IN  IF ~CanMakeRequest(promptRateLimiter, clock)
           THEN /\ promptRateLimiter' = filtered
                /\ prompts' = Append(prompts,
                       [time |-> clock, admitted |-> FALSE, remaining |-> 0,
                        resetTime |-> GetResetTime(filtered, clock)])
           ELSE /\ promptRateLimiter' =
                       Filtered(RecordRequest(filtered, clock), clock)
                /\ prompts' = Append(prompts,
                       [time |-> clock, admitted |-> TRUE,
                        remaining |-> GetRemainingRequests(
                                          RecordRequest(filtered, clock), clock),
                        resetTime |-> 0])

HandlePrompt ==
    /\ RateLimitCheck
    /\ UNCHANGED <<clock, ticks, brokerVars, exec, windowVars, consumerVars>>

LimiterSteps == {1, PromptWindowMs - 1, PromptWindowMs}

Arrivals == Served("127.0.0.1") + Len(prompts)

NextLimiters ==
    \/ ticks < MaxLimiterTicks /\ \E d \in LimiterSteps : Tick(d)
    \/ Arrivals < MaxLimiterArrivals /\ HttpRequest("127.0.0.1", <<"localhost", ":3000">>)
    \/ Arrivals < MaxLimiterArrivals /\ HandlePrompt

SpecLimiters == Init /\ [][NextLimiters]_vars

(***************************************************************************)
(* Submissions of every shape against a small registry.                    *)
(***************************************************************************)
NextSend ==
    \/ Steps < MaxSendSteps /\ \E clientIp \in RemoteAddresses : Connection(clientIp)
    \/ \E c \in 1..Len(conns) : OnClose(c)
    \/ Steps < MaxSendSteps /\ \E body \in Bodies : PostSend(body)

SpecSend == Init /\ [][NextSend]_vars

(***************************************************************************)
(* Submissions that differ in the page url only: loopback names, names     *)
(* under development suffixes, addresses inside and just outside the       *)
(* private ranges, public names, and a string that new URL rejects.        *)
(***************************************************************************)
Ip4(a, b, c, d) == <<Oct(a), Oct(b), Oct(c), Oct(d)>>

OriginHosts ==
    { <<Name("localhost")>>, Ip4(127, 0, 0, 1), <<Name("[::1]")>>,
      <<Name("myapp"), Name("local")>>, <<Name("myapp"), Name("test")>>,
      <<Name("docs"), Name("example")>>, <<Name("local")>>,
      <<Name("example"), Name("com")>>,
      Ip4(10, 1, 2, 3), Ip4(11, 0, 0, 1),
      Ip4(172, 16, 0, 1), Ip4(172, 31, 255, 255), Ip4(172, 15, 0, 1), Ip4(172, 32, 0, 1),
      Ip4(192, 168, 1, 5), Ip4(192, 169, 0, 1),
      <<>> }

OriginBodies == {Body(Str(1), Str(20), host, Undefined) : host \in OriginHosts}

NextOrigin ==
    \/ Steps < MaxOriginSteps /\ \E clientIp \in RemoteAddresses : Connection(clientIp)
    \/ \E c \in 1..Len(conns) : OnClose(c)
    \/ Steps < MaxOriginSteps /\ \E body \in OriginBodies : PostSend(body)

SpecOrigin == Init /\ [][NextOrigin]_vars

(***************************************************************************)
(* Submissions whose write to the connection may throw.                    *)
(***************************************************************************)
NextFault ==
    \/ Steps < MaxFaultSteps /\ \E clientIp \in RemoteAddresses : Connection(clientIp)
    \/ \E c \in 1..Len(conns) : OnClose(c)
    \/ Steps < MaxFaultSteps /\ \E body \in RouteBodies : PostSend(body)
    \/ Steps < MaxFaultSteps /\ \E body \in RouteBodies : PostSendThrowing(body)

SpecFault == Init /\ [][NextFault]_vars

(***************************************************************************)
(* The diagnostics routes: each builds its response from the Map with      *)
(* Array.from(...).map(...), which copies the fields it reports.           *)
(***************************************************************************)
\* A health summary that counts the ids issued so far.
HealthResponseIssued(clients) ==
    [route |-> "/api/health",
     vsCodeConnected |-> clientIdCounter > 1,
     connectedClients |->
         [i \in 1..Len(clients) |->
             [id |-> clients[i].info.id,
              workspace |-> clients[i].info.workspace,
              connectedAt |-> clients[i].info.connectedAt,
              lastActive |-> clients[i].info.lastActive,
              messageCount |-> clients[i].info.messageCount]],
     clientCount |-> clientIdCounter - 1]

HealthResponse(clients) ==
    [route |-> "/api/health",
     vsCodeConnected |-> Len(clients) > 0,
     connectedClients |->
         [i \in 1..Len(clients) |->
             [id |-> clients[i].info.id,
              workspace |-> clients[i].info.workspace,
              connectedAt |-> clients[i].info.connectedAt,
              lastActive |-> clients[i].info.lastActive,
              messageCount |-> clients[i].info.messageCount]],
     clientCount |-> Len(clients)]

ClientsResponse(clients) ==
    LET list == [i \in 1..Len(clients) |->
                    [id |-> clients[i].id,
                     workspace |-> clients[i].info.workspace,
                     workspacePath |-> Or(clients[i].info.workspacePath, Text("Unknown", 7)),
                     activeFile |-> Or(clients[i].info.activeFile, Text("Unknown", 7)),
                     connectedAt |-> clients[i].info.connectedAt,
                     lastActive |-> clients[i].info.lastActive,
                     status |-> "connected"]]
    IN  [route |-> "/api/clients", clients |-> list, clientCount |-> Len(list)]

StatsResponse(clients, now) ==
    [route |-> "/api/stats",
     clients |->
         [i \in 1..Len(clients) |->
             [id |-> clients[i].info.id,
              messageCount |-> clients[i].info.messageCount,
              bytesSent |-> clients[i].info.bytesSent,
              bytesReceived |-> clients[i].info.bytesReceived,
              connectedFor |-> now - clients[i].info.connectedAt]]]

GetHealth ==
    /\ diag' = HealthResponse(vsCodeClients)
    /\ UNCHANGED <<clock, ticks, clientIdCounter, vsCodeClients, conns, nFrames,
                   nSends, resp, httpVars, prodVars, lifeVars, extVars>>

GetClients ==
    /\ diag' = ClientsResponse(vsCodeClients)
    /\ UNCHANGED <<clock, ticks, clientIdCounter, vsCodeClients, conns, nFrames,
                   nSends, resp, httpVars, prodVars, lifeVars, extVars>>

GetStats ==
    /\ diag' = StatsResponse(vsCodeClients, clock)
    /\ UNCHANGED <<clock, ticks, clientIdCounter, vsCodeClients, conns, nFrames,
                   nSends, resp, httpVars, prodVars, lifeVars, extVars>>

NextDiag ==
    \/ Steps < MaxDiagSteps /\ Tick(1)
    \/ Steps < MaxDiagSteps /\ \E clientIp \in RemoteAddresses : Connection(clientIp)
    \/ Steps < MaxDiagSteps /\ \E c \in 1..Len(conns), frame \in RouteFrames : Message(c, frame)
    \/ \E c \in 1..Len(conns) : OnClose(c)
    \/ Steps < MaxDiagSteps /\ \E body \in RouteBodies : PostSend(body)
    \/ GetHealth
    \/ GetClients
    \/ GetStats

SpecDiag == Init /\ [][NextDiag]_vars

(***************************************************************************)
(* process.on('SIGINT'): in one callback every registered client's         *)
(* connection is asked to close, then wss.close() and httpServer.close()   *)
(* are called and the forced-exit timer is armed.  ws.close on a           *)
(* connection that is not OPEN changes nothing.  The callback of           *)
(* httpServer.close, which runs once the listener has closed, exits with   *)
(* code 0; the callback of wss.close only logs.  While the listener is     *)
(* closing, requests on connections it accepted before are still served.   *)
(***************************************************************************)
Alive == proc.state = "running"

\* A shutdown that leaves the client connections as they are.
CloseNone(cs, clients) == cs

CloseNormally(cs, clients) ==
    [c \in 1..Len(cs) |->
        IF (\E i \in 1..Len(clients) : clients[i].ws = c) /\ cs[c].readyState = "OPEN"
        THEN [cs[c] EXCEPT !.readyState = "CLOSING", !.closeCode = NormalClosure]
        ELSE cs[c]]

Sigint ==
    /\ Alive
    /\ conns' = CloseNormally(conns, vsCodeClients)
    /\ wssState' = IF wssState = "RUNNING" THEN "CLOSING" ELSE wssState
    /\ httpServerState' = IF httpServerState = "listening" THEN "closing"
                          ELSE httpServerState
    /\ forceExitAt' = IF forceExitAt = 0 THEN clock + ForceExitMs ELSE forceExitAt
    /\ UNCHANGED <<clock, ticks, clientIdCounter, vsCodeClients, nFrames, nSends, resp,
                   httpVars, prodVars, diag, proc, extVars>>

\* The acceptor's server has no connection left: the callback of wss.close.
WssClosed ==
    /\ Alive
    /\ wssState = "CLOSING"
    /\ \A c \in 1..Len(conns) : conns[c].readyState = "CLOSED"
    /\ wssState' = "CLOSED"
    /\ UNCHANGED <<clock, ticks, clientIdCounter, vsCodeClients, conns, nFrames,
                   nSends, resp, httpVars, prodVars, diag, httpServerState, proc,
                   forceExitAt, extVars>>

\* The listener has closed: the callback of httpServer.close.
HttpServerClosed ==
    /\ Alive
    /\ httpServerState = "closing"
    /\ httpServerState' = "closed"
    /\ proc' = [state |-> "exited", code |-> 0]
    /\ UNCHANGED <<clock, ticks, clientIdCounter, vsCodeClients, conns, nFrames,
                   nSends, resp, httpVars, prodVars, diag, wssState, forceExitAt, extVars>>

\* A timer whose callback does not end the process.
ForcedExitLogsOnly ==
    /\ Alive
    /\ forceExitAt # 0 /\ clock >= forceExitAt
    /\ UNCHANGED vars

\* The timer of the SIGINT handler fires.
ForcedExit ==
    /\ Alive
    /\ forceExitAt # 0 /\ clock >= forceExitAt
    /\ proc' = [state |-> "exited", code |-> 1]
    /\ UNCHANGED <<clock, ticks, clientIdCounter, vsCodeClients, conns, nFrames,
                   nSends, resp, httpVars, prodVars, diag, wssState, httpServerState,
                   forceExitAt, extVars>>

\* Time passes until the forced-exit timer is due.
TickToForcedExit ==
    /\ Alive
    /\ forceExitAt # 0 /\ clock < forceExitAt
    /\ clock' = forceExitAt
    /\ ticks' = ticks + 1
    /\ UNCHANGED <<clientIdCounter, vsCodeClients, conns, nFrames, nSends, resp,
                   httpVars, prodVars, sysVars>>

NextLife ==
    \/ Alive /\ Steps < MaxLifeSteps /\ Tick(1)
    \/ Alive /\ TickToForcedExit
    \/ Alive /\ wssState = "RUNNING" /\ Steps < MaxLifeSteps
          /\ \E clientIp \in RemoteAddresses : Connection(clientIp)
    \/ Alive /\ \E c \in 1..Len(conns) : BeginClose(c)
    \/ Alive /\ \E c \in 1..Len(conns) : OnClose(c)
    \/ Alive /\ \E c \in 1..Len(conns) : OnError(c)
    \/ Alive /\ httpServerState # "closed" /\ Steps < MaxLifeSteps
          /\ \E body \in RouteBodies : PostSend(body)
    \/ Sigint
    \/ WssClosed
    \/ HttpServerClosed
    \/ ForcedExit

SpecLife == Init /\ [][NextLife]_vars

\* Timers fire: time reaches the instant the forced-exit timer is due, and
\* the timer's callback then runs.  Nothing is assumed of the close
\* callbacks of the connections, the acceptor or the listener.
SpecLifeFair == SpecLife /\ WF_vars(TickToForcedExit) /\ WF_vars(ForcedExit)

(***************************************************************************)
(* Inbound frames of every shape, with time passing and submissions        *)
(* dispatched in between.                                                  *)
(***************************************************************************)
NextFrames ==
    \/ Steps < MaxFrameSteps /\ Tick(1)
    \/ Steps < MaxFrameSteps /\ \E clientIp \in RemoteAddresses : Connection(clientIp)
    \/ Steps < MaxFrameSteps /\ \E c \in 1..Len(conns), frame \in Frames : Message(c, frame)
    \/ Steps < MaxFrameSteps /\ \E body \in RouteBodies : PostSend(body)

SpecFrames == Init /\ [][NextFrames]_vars

(***************************************************************************)
(* The security middleware under load from one caller, with a second       *)
(* caller beside it.                                                       *)
(***************************************************************************)
NextRate ==
    \/ ticks < MaxRateTicks /\ \E d \in RateSteps : Tick(d)
    \/ Served("127.0.0.1") < MaxRateRequests
          /\ HttpRequest("127.0.0.1", <<"localhost", ":3000">>)
    \/ Served("192.168.1.7") < MaxOtherRequests
          /\ \E host \in Hosts : HttpRequest("192.168.1.7", host)

SpecRate == Init /\ [][NextRate]_vars

(***************************************************************************)
(* A POST /api/send through the whole chain: the security middleware, and  *)
(* the route handler only when the middleware called next().  A response   *)
(* of the middleware carries its own error text.  No consumer connects     *)
(* here: a submission that passes every check is answered 503.             *)
(***************************************************************************)
MiddlewareError(status) ==
    IF status = 403 THEN "SECURITY: Only localhost connections allowed"
    ELSE "RATE_LIMIT: Too many requests"

Submit(ip, host, body) ==
    /\ Middleware(ip, host)
    /\ LET status == MiddlewareStatus(requests, ip, host, clock)
       IN  IF status = 0
           THEN HandleSend(body)
           ELSE /\ resp' = [req |-> body, status |-> status,
                            error |-> MiddlewareError(status), success |-> FALSE,
                            clientCount |-> 0, targetClientId |-> Null]
                /\ UNCHANGED <<clock, ticks, clientIdCounter, vsCodeClients, conns,
                               nFrames, nSends>>
    /\ UNCHANGED <<prodVars, sysVars>>

\* One submission that passes validation, one without a prompt, one from a
\* public page.
SubmitBodies ==
    { Body(Str(1), NoUrl[1], NoUrl[2], Undefined),
      Body(Undefined, NoUrl[1], NoUrl[2], Undefined),
      Body(Str(1), PublicUrl[1], PublicUrl[2], Undefined) }

NextSubmit ==
    \/ ticks < MaxSubmitTicks /\ Tick(WindowMs)
    \/ Served("127.0.0.1") < MaxSubmits
          /\ \E body \in SubmitBodies : Submit("127.0.0.1", <<"localhost", ":3000">>, body)
    \/ Served("192.168.1.7") < MaxOtherRequests
          /\ \E host \in Hosts, body \in SubmitBodies : Submit("192.168.1.7", host, body)

SpecSubmit == Init /\ [][NextSubmit]_vars

(***************************************************************************)
(* Vocabulary of the properties.                                           *)
(***************************************************************************)
SendStep == nSends' = nSends + 1

\* The connections a step wrote an envelope to.
WrittenTo == {c \in 1..Len(conns) : conns'[c].sent # conns[c].sent}

Untargeted(req) == ~Truthy(req.targetClientId)

Loopback(ip) == ip \in {"127.0.0.1", "::1", "::ffff:127.0.0.1"}

Accepted == {c \in 1..Len(conns) : conns[c].handlers}

\* The registry entries whose lastActive no other entry exceeds.
MostRecentSet(clients) ==
    {i \in 1..Len(clients) :
        \A j \in 1..Len(clients) : clients[j].info.lastActive <= clients[i].info.lastActive}

Entry(id) == vsCodeClients[MapIndex(vsCodeClients, id)]

Minimum(S) == CHOOSE x \in S : \A y \in S : x <= y

(***************************************************************************)
(* C1: every id handed to a client is larger than every id handed out      *)
(* before it, whatever accepts, rejections and disconnects came between;   *)
(* hence ids are unique and the id of a disconnected client never returns. *)
(***************************************************************************)
C1_IdsStrictlyIncreasing ==
    /\ \A i, j \in Accepted : i < j => conns[i].clientId < conns[j].clientId
    /\ \A i \in 1..Len(vsCodeClients) :
          /\ vsCodeClients[i].ws \in Accepted
          /\ conns[vsCodeClients[i].ws].clientId = vsCodeClients[i].id
    /\ \A i, j \in 1..Len(vsCodeClients) :
          i < j => vsCodeClients[i].id < vsCodeClients[j].id

\* A client has disconnected, an attempt was rejected, a later client is registered.
C1_Witness ==
    \E i, j, k \in 1..Len(conns) :
        /\ i < j /\ j < k
        /\ conns[i].handlers /\ conns[i].readyState = "CLOSED"
        /\ ~conns[j].handlers
        /\ conns[k].handlers /\ conns[k].clientId \in Ids(vsCodeClients)

(***************************************************************************)
(* C2: a POST /api/send writes at most one envelope, a prompt envelope, to *)
(* at most one connection; the clientCount of a 200 response is 0 or 1 and *)
(* is the number of envelopes written; when it is 1 the targetClientId is  *)
(* the id of the client written to; an error response writes nothing.      *)
(***************************************************************************)
C2_SingleRecipient ==
    [][SendStep =>
        /\ Cardinality(WrittenTo) <= 1
        /\ \A c \in WrittenTo :
              /\ Len(conns'[c].sent) = Len(conns[c].sent) + 1
              /\ conns'[c].sent[Len(conns'[c].sent)].type = "prompt"
              /\ resp'.targetClientId = Int2(conns[c].clientId)
        /\ resp'.clientCount \in {0, 1}
        /\ resp'.clientCount = Cardinality(WrittenTo)
        /\ resp'.status # 200 => WrittenTo = {}]_vars

\* A submission was delivered while two clients were registered and open.
C2_Witness ==
    /\ resp.status = 200 /\ resp.clientCount = 1
    /\ Len(vsCodeClients) >= 2
    /\ \A i \in 1..Len(vsCodeClients) : IsOpen(conns, vsCodeClients[i].ws)
    /\ \E i \in 1..Len(vsCodeClients) :
          /\ resp.targetClientId = Int2(vsCodeClients[i].id)
          /\ Len(conns[vsCodeClients[i].ws].sent) = 2

(***************************************************************************)
(* C3: a connection whose remote address is not loopback is closed with    *)
(* code 1008 from the step in which it arrives (it is never OPEN), gets no *)
(* envelope and no registry entry; every registry entry belongs to a       *)
(* connection from a loopback address.                                     *)
(***************************************************************************)
C3_LoopbackOnly ==
    /\ \A c \in 1..Len(conns) :
          ~Loopback(conns[c].remoteAddress) =>
              /\ conns[c].readyState # "OPEN"
              /\ conns[c].closeCode = 1008
              /\ conns[c].sent = <<>>
              /\ \A i \in 1..Len(vsCodeClients) : vsCodeClients[i].ws # c
    /\ \A i \in 1..Len(vsCodeClients) :
          Loopback(conns[vsCodeClients[i].ws].remoteAddress)

\* An attempt from a private-range address was rejected beside a registered client.
C3_Witness ==
    /\ \E c \in 1..Len(conns) :
          ~Loopback(conns[c].remoteAddress) /\ conns[c].closeCode = 1008
    /\ Len(vsCodeClients) >= 1

(***************************************************************************)
(* C4: an untargeted submission is routed to a registered client with the  *)
(* largest lastActive: an envelope it writes goes to such a client, and    *)
(* when the registry is non-empty and those clients' connections are open  *)
(* an envelope is written.  With clients 1 and 2 registered and client 2's *)
(* lastActive later than client 1's, it is routed to client 2.             *)
(***************************************************************************)
C4_RoutesToMostRecent ==
    [][(SendStep /\ Untargeted(resp'.req) /\ resp'.status = 200) =>
        LET recent == MostRecentSet(vsCodeClients)
        IN  /\ \A c \in WrittenTo :
                  \E i \in recent : vsCodeClients[i].ws = c
            /\ (recent # {} /\ \A i \in recent : IsOpen(conns, vsCodeClients[i].ws))
                  => \E i \in recent :
                        /\ WrittenTo = {vsCodeClients[i].ws}
                        /\ resp'.targetClientId = Int2(vsCodeClients[i].id)
            /\ ( /\ Ids(vsCodeClients) = {1, 2}
                 /\ Entry(2).info.lastActive > Entry(1).info.lastActive
                 /\ IsOpen(conns, Entry(2).ws) )
                  => /\ WrittenTo = {Entry(2).ws}
                     /\ resp'.targetClientId = Int2(2)]_vars

\* Clients 1 and 2 are registered, client 2 has sent a frame later than
\* client 1's last activity, and the untargeted submission went to client 2.
C4_Witness ==
    /\ Ids(vsCodeClients) = {1, 2}
    /\ Untargeted(resp.req) /\ resp.clientCount = 1
    /\ resp.targetClientId = Int2(2)
    /\ Entry(2).info.messageCount = 1
    /\ Entry(1).info.lastActive < Entry(2).info.connectedAt + 1
    /\ Entry(1).info.lastActive < Entry(2).info.lastActive

(***************************************************************************)
(* C5: when several registered clients share the largest lastActive, an    *)
(* untargeted submission is routed to the one with the lowest id.          *)
(***************************************************************************)
C5_TieLowestId ==
    [][(SendStep /\ Untargeted(resp'.req)) =>
        \A c \in WrittenTo :
            conns[c].clientId =
                Minimum({vsCodeClients[i].id : i \in MostRecentSet(vsCodeClients)})]_vars

\* Client 1 is gone; clients 2 and 3 were equally recent when the untargeted
\* submission was routed (no time has passed since), and it went to client 2.
C5_Witness ==
    /\ Ids(vsCodeClients) = {2, 3}
    /\ Untargeted(resp.req) /\ resp.clientCount = 1
    /\ resp.targetClientId = Int2(2)
    /\ Entry(2).info.lastActive = clock
    /\ Entry(3).info.lastActive = clock
    /\ Len(conns[Entry(3).ws].sent) = 1

C10_DispatchFrame ==
    [][(SendStep /\ resp'.clientCount = 1) =>
        /\ clientIdCounter' = clientIdCounter
        /\ Len(vsCodeClients') = Len(vsCodeClients)
        /\ \E i \in 1..Len(vsCodeClients) :
              /\ resp'.targetClientId = Int2(vsCodeClients[i].id)
              /\ \A j \in 1..Len(vsCodeClients) :
                    j # i => vsCodeClients'[j] = vsCodeClients[j]
              /\ vsCodeClients'[i] =
                    [vsCodeClients[i] EXCEPT
                        !.info.lastActive = vsCodeClients'[i].info.lastActive,
                        !.info.bytesSent = vsCodeClients'[i].info.bytesSent]
              /\ vsCodeClients'[i].info.bytesSent > vsCodeClients[i].info.bytesSent
              /\ vsCodeClients'[i].info.lastActive = clock]_vars

\* A dispatch to client 2 while client 1, which has handled a frame, is registered.
C10_Witness ==
    /\ resp.clientCount = 1
    /\ resp.targetClientId = Int2(2)
    /\ Ids(vsCodeClients) = {1, 2}
    /\ Entry(1).info.messageCount = 1
    /\ Entry(2).info.bytesSent > WelcomeLength(2)

(***************************************************************************)
(* C7: POST /api/send accepts the prompt exactly when it is a string of    *)
(* 1 to 100000 characters.  Any other prompt (missing, empty, 100001       *)
(* characters, not a string) is answered 400 VALIDATION_ERROR and changes  *)
(* no connection and no registry entry; an accepted prompt is answered     *)
(* VALIDATION_ERROR only for its target id.                                *)
(***************************************************************************)
PromptAccepted(prompt) ==
    prompt.t = "string" /\ prompt.n >= 1 /\ prompt.n <= 100000

PositiveNumber(v) == v.t = "number" /\ v.n >= 2

C7_PromptLengthBoundary ==
    [][SendStep =>
        /\ ~PromptAccepted(resp'.req.prompt) =>
              /\ resp'.status = 400 /\ resp'.error = "VALIDATION_ERROR"
              /\ WrittenTo = {}
              /\ conns' = conns /\ vsCodeClients' = vsCodeClients
        /\ (PromptAccepted(resp'.req.prompt) /\ resp'.error = "VALIDATION_ERROR") =>
              (Truthy(resp'.req.targetClientId)
                  /\ ~PositiveNumber(resp'.req.targetClientId))]_vars

\* A prompt of exactly 100000 characters was delivered.
C7_Witness ==
    /\ resp.req.prompt = Str(100000)
    /\ resp.status = 200 /\ resp.clientCount = 1
    /\ \E c \in 1..Len(conns) :
          /\ Len(conns[c].sent) = 2
          /\ conns[c].sent[2].length = PromptEnvelopeBaseLength + 200000

(***************************************************************************)
(* C8: in any window of 1000 ms the middleware admits at most 10 requests  *)
(* of one caller; of 11 requests of one caller within one second, none of  *)
(* whose predecessors is still inside the window, the first 10 are         *)
(* admitted and the 11th is answered 429.                                  *)
(***************************************************************************)
Limited(ip) == SelectSeq(httpLog[ip], LAMBDA e : e.status # 403)

C8_TenPerSecond ==
    \A ip \in HttpIps :
        LET L == Limited(ip)
        IN  /\ \A j \in 1..Len(L) :
                  L[j].status = 0 =>
                      Cardinality({k \in 1..j : /\ L[k].status = 0
                                                /\ L[k].time > L[j].time - 1000}) <= 10
            /\ \A i \in 1..(Len(L) - 10) :
                  ( /\ L[i + 10].time - L[i].time < 1000
                    /\ \A k \in 1..(i - 1) :
                          L[k].status = 0 => L[k].time <= L[i].time - 1000 )
                  => /\ \A m \in i..(i + 9) : L[m].status = 0
                     /\ L[i + 10].status = 429

\* Eleven requests of one caller within a second: ten admitted, the eleventh
\* refused; the twelfth, once the window has passed, admitted again.
C8_Witness ==
    LET L == Limited("127.0.0.1")
    IN  /\ Len(L) = 12
        /\ \A m \in 1..10 : L[m].status = 0
        /\ L[11].status = 429
        /\ L[11].time - L[1].time < 1000
        /\ L[11].time > L[1].time
        /\ L[12].status = 0

(***************************************************************************)
(* C9: one send action of the producer, with every retry it makes after a  *)
(* timeout or a failed response, leads to at most one prompt envelope      *)
(* written to a consumer connection.                                       *)
(***************************************************************************)
EnvelopesOf(sub) ==
    UNION {{<<c, i>> : i \in {m \in 1..Len(conns[c].sent) :
                                 /\ conns[c].sent[m].type = "prompt"
                                 /\ conns[c].sent[m].sub = sub}} : c \in 1..Len(conns)}

C9_AtMostOnce == Cardinality(EnvelopesOf(1)) <= 1

(***************************************************************************)
(* C11: a submission that fails payload validation, the page-origin check  *)
(* or the target-id check is answered with its error (400 VALIDATION_ERROR *)
(* or 403 SECURITY_ERROR), and a submission so answered writes to no       *)
(* connection and leaves every registry entry, the set and order of ids    *)
(* and the id counter as they were.                                        *)
(***************************************************************************)
PublicOrigin(req) == Truthy(req.url) /\ req.host = <<Name("example"), Name("com")>>

FailsValidation(req) ==
    \/ ~PromptAccepted(req.prompt)
    \/ PublicOrigin(req)
    \/ Truthy(req.targetClientId) /\ ~PositiveNumber(req.targetClientId)

Rejected(r) == r.error \in {"VALIDATION_ERROR", "SECURITY_ERROR", "INVALID_CLIENT_ID"}

C11_RejectedTouchesNothing ==
    [][SendStep =>
        /\ FailsValidation(resp'.req) => (resp'.status \in {400, 403} /\ Rejected(resp'))
        /\ Rejected(resp') =>
              /\ WrittenTo = {}
              /\ conns' = conns
              /\ vsCodeClients' = vsCodeClients
              /\ clientIdCounter' = clientIdCounter
              /\ ~resp'.success /\ resp'.clientCount = 0]_vars

\* A submission from a public page was refused while a client that had been
\* sent a prompt before was registered and open.
C11_Witness ==
    /\ resp.error = "SECURITY_ERROR"
    /\ PromptAccepted(resp.req.prompt)
    /\ nSends = 2
    /\ \E i \in 1..Len(vsCodeClients) :
          /\ IsOpen(conns, vsCodeClients[i].ws)
          /\ Len(conns[vsCodeClients[i].ws].sent) = 2

(***************************************************************************)
(* C12: a submission whose body carries a targetClientId that is not a     *)
(* positive integer (0, a negative number, a fraction, a non-number) is    *)
(* answered with an error and written to no connection.                    *)
(***************************************************************************)
PositiveInteger(v) == v.t = "number" /\ v.n >= 2 /\ v.n % 2 = 0

C12_InvalidTargetRejected ==
    [][(SendStep /\ resp'.req.targetClientId.t # "undefined"
                 /\ ~PositiveInteger(resp'.req.targetClientId)) =>
        /\ resp'.status # 200
        /\ resp'.error # ""
        /\ WrittenTo = {}]_vars

(***************************************************************************)
(* C13: when the connection of a registered client emits close or error,   *)
(* its id leaves the registry; an id that was issued and is not in the     *)
(* registry never enters it again, so it is absent in every later state;   *)
(* a delivery names and writes to a client that is registered; and every   *)
(* new connection gets an id that no earlier connection was given.         *)
(***************************************************************************)
IssuedIds == {conns[c].clientId : c \in 1..Len(conns)}

C13_GoneStaysGone ==
    [][/\ \A c \in 1..Len(conns) :
              (conns[c].handlers /\ (OnClose(c) \/ OnError(c)))
                  => conns[c].clientId \notin Ids(vsCodeClients')
       /\ \A id \in IssuedIds :
              id \notin Ids(vsCodeClients) => id \notin Ids(vsCodeClients')
       /\ (SendStep /\ resp'.clientCount = 1) =>
              \E i \in 1..Len(vsCodeClients) :
                  /\ resp'.targetClientId = Int2(vsCodeClients[i].id)
                  /\ WrittenTo = {vsCodeClients[i].ws}
       /\ Len(conns') > Len(conns) =>
              conns'[Len(conns')].clientId \notin IssuedIds]_vars

\* One client has closed, another has errored, a third has connected since
\* and is registered, and a submission naming the errored client's id was
\* answered CLIENT_NOT_FOUND.
C13_Witness ==
    \E a, b, c \in Accepted :
        /\ a # b /\ a < c /\ b < c
        /\ conns[a].readyState = "CLOSED"
        /\ conns[b].readyState = "CLOSING"
        /\ conns[b].clientId \notin Ids(vsCodeClients)
        /\ conns[c].clientId \in Ids(vsCodeClients)
        /\ resp.error = "CLIENT_NOT_FOUND"
        /\ resp.req.targetClientId = Int2(conns[b].clientId)

(***************************************************************************)
(* Vocabulary of the frame properties.                                     *)
(***************************************************************************)
WellFormed(frame) ==
    /\ frame.size <= 1048576
    /\ frame.parses
    /\ frame.type.t = "string" /\ frame.type.n > 0

Malformed(frame) ==
    ~WellFormed(frame) \/ frame.type.s \notin {"client-info", "heartbeat"}

Carried(v) == v.t # "undefined"

EntryAfter(id) == vsCodeClients'[MapIndex(vsCodeClients', id)]

SameIds ==
    /\ Len(vsCodeClients') = Len(vsCodeClients)
    /\ \A i \in 1..Len(vsCodeClients) :
          /\ vsCodeClients'[i].id = vsCodeClients[i].id
          /\ vsCodeClients'[i].ws = vsCodeClients[i].ws

OthersUnchanged(id) ==
    \A i \in 1..Len(vsCodeClients) :
        vsCodeClients[i].id # id => vsCodeClients'[i] = vsCodeClients[i]

SameMetadata(a, b) ==
    /\ b.workspace = a.workspace
    /\ b.workspacePath = a.workspacePath
    /\ b.activeFile = a.activeFile

(***************************************************************************)
(* C14: a frame that is oversized, does not parse, has no string type or   *)
(* has an unknown type closes no connection and unregisters no client: the *)
(* sender is still registered, its connection still open with its          *)
(* handlers, and its workspace, workspacePath, activeFile and lastActive,  *)
(* like every other client's record, are as before.                        *)
(***************************************************************************)
C14_MalformedFrameDropped ==
    [][\A c \in 1..Len(conns), frame \in Frames :
          (Malformed(frame) /\ Message(c, frame)) =>
              LET id == conns[c].clientId
              IN  /\ conns' = conns
                  /\ IsOpen(conns', c) /\ conns'[c].handlers
                  /\ SameIds
                  /\ id \in Ids(vsCodeClients')
                  /\ SameMetadata(Entry(id).info, EntryAfter(id).info)
                  /\ EntryAfter(id).info.lastActive = Entry(id).info.lastActive
                  /\ OthersUnchanged(id)]_vars

\* A client has been sent an oversized frame and a heartbeat at a later time
\* than its connection; the heartbeat was handled, and the client is
\* registered and open.
C14_Witness ==
    \E i \in 1..Len(vsCodeClients) :
        /\ IsOpen(conns, vsCodeClients[i].ws)
        /\ vsCodeClients[i].info.bytesReceived = 1048577 + 20
        /\ vsCodeClients[i].info.messageCount = 1
        /\ vsCodeClients[i].info.lastActive > vsCodeClients[i].info.connectedAt

(***************************************************************************)
(* C15, as claimed: every inbound frame on a client's connection, whatever *)
(* its type, sets the client's lastActive to the present time, and so does *)
(* every successful dispatch to it.                                        *)
(***************************************************************************)
C15_AsClaimed ==
    [][/\ \A c \in 1..Len(conns), frame \in Frames :
              Message(c, frame) =>
                  EntryAfter(conns[c].clientId).info.lastActive = clock
       /\ (SendStep /\ resp'.clientCount = 1) =>
              \A c \in WrittenTo :
                  EntryAfter(conns[c].clientId).info.lastActive = clock]_vars

(***************************************************************************)
(* C15, amended: a heartbeat frame, a client-info frame that carries a     *)
(* data object and a successful dispatch set the client's lastActive to    *)
(* the present time; every other inbound frame (oversized, not parsable,   *)
(* without a string type, of unknown type, client-info without a data      *)
(* object) leaves it as it was.                                            *)
(***************************************************************************)
Refreshes(frame) ==
    /\ WellFormed(frame)
    /\ \/ frame.type.s = "heartbeat"
       \/ frame.type.s = "client-info" /\ frame.hasData

C15_RefreshingFrames ==
    [][/\ \A c \in 1..Len(conns), frame \in Frames :
              Message(c, frame) =>
                  EntryAfter(conns[c].clientId).info.lastActive =
                      IF Refreshes(frame) THEN clock
                      ELSE Entry(conns[c].clientId).info.lastActive
       /\ (SendStep /\ resp'.clientCount = 1) =>
              \A c \in WrittenTo :
                  EntryAfter(conns[c].clientId).info.lastActive = clock]_vars

\* A frame of unknown type was handled at a later time than the client's
\* last activity and has left lastActive behind the clock.
C15_Witness ==
    \E i \in 1..Len(vsCodeClients) :
        /\ vsCodeClients[i].info.bytesReceived = 15
        /\ vsCodeClients[i].info.messageCount = 1
        /\ vsCodeClients[i].info.lastActive < clock
        /\ nFrames = 1 /\ ticks = 1

(***************************************************************************)
(* C16, as claimed: a client-info frame (one that carries a data object)   *)
(* sets the workspace, workspacePath and activeFile it carries, keeps for  *)
(* a field it does not carry the value the client had before, sets         *)
(* lastActive to the present time, and changes no other client's record.   *)
(***************************************************************************)
Merged(carried, before) == IF Carried(carried) THEN carried ELSE before

C16_AsClaimed ==
    [][\A c \in 1..Len(conns), frame \in Frames :
          ( /\ WellFormed(frame) /\ frame.type.s = "client-info" /\ frame.hasData
            /\ Message(c, frame) ) =>
              LET a == Entry(conns[c].clientId).info
                  b == EntryAfter(conns[c].clientId).info
              IN  /\ b.workspace = Merged(frame.workspace, a.workspace)
                  /\ b.workspacePath = Merged(frame.workspacePath, a.workspacePath)
                  /\ b.activeFile = Merged(frame.activeFile, a.activeFile)
                  /\ b.lastActive = clock
                  /\ OthersUnchanged(conns[c].clientId)]_vars

(***************************************************************************)
(* C16, amended: a client-info frame with a data object replaces the       *)
(* client's workspace, workspacePath and activeFile: a field the frame     *)
(* carries with a non-empty value gets that value, a field it does not     *)
(* carry (or carries as null or empty) is reset to its default, 'Unknown'  *)
(* for the workspace and null for the other two, and lastActive becomes    *)
(* the present time.  A client-info frame without a data object changes    *)
(* neither these fields nor lastActive.  No other client's record changes. *)
(***************************************************************************)
Replaced(carried, default) == IF Truthy(carried) THEN carried ELSE default

C16_ClientInfoReplaces ==
    [][\A c \in 1..Len(conns), frame \in Frames :
          (WellFormed(frame) /\ frame.type.s = "client-info" /\ Message(c, frame)) =>
              LET a == Entry(conns[c].clientId).info
                  b == EntryAfter(conns[c].clientId).info
              IN  /\ frame.hasData =>
                        /\ b.workspace = Replaced(frame.workspace, Text("Unknown", 7))
                        /\ b.workspacePath = Replaced(frame.workspacePath, Null)
                        /\ b.activeFile = Replaced(frame.activeFile, Null)
                        /\ b.lastActive = clock
                  /\ ~frame.hasData =>
                        /\ SameMetadata(a, b)
                        /\ b.lastActive = a.lastActive
                  /\ SameIds
                  /\ OthersUnchanged(conns[c].clientId)]_vars

\* A client that had sent its workspace, path and file has then sent a
\* client-info carrying only a file: workspace and path are back at their
\* defaults; a second client is registered beside it.
C16_Witness ==
    /\ Len(vsCodeClients) = 2
    /\ \E i \in 1..Len(vsCodeClients) :
          /\ vsCodeClients[i].info.bytesReceived = 90 + 50
          /\ vsCodeClients[i].info.messageCount = 2
          /\ vsCodeClients[i].info.workspace = Text("Unknown", 7)
          /\ vsCodeClients[i].info.workspacePath = Null
          /\ vsCodeClients[i].info.activeFile = Text("util.js", 7)

(***************************************************************************)
(* C17: a heartbeat frame sets the sender's lastActive to the present time *)
(* and leaves the sender's workspace, workspacePath and activeFile, every  *)
(* other client's record and the set and order of registered ids as they   *)
(* were.                                                                   *)
(***************************************************************************)
C17_HeartbeatRefreshesOnly ==
    [][\A c \in 1..Len(conns), frame \in Frames :
          (WellFormed(frame) /\ frame.type.s = "heartbeat" /\ Message(c, frame)) =>
              LET a == Entry(conns[c].clientId).info
                  b == EntryAfter(conns[c].clientId).info
              IN  /\ b.lastActive = clock
                  /\ SameMetadata(a, b)
                  /\ b.connectedAt = a.connectedAt /\ b.bytesSent = a.bytesSent
                  /\ SameIds
                  /\ OthersUnchanged(conns[c].clientId)
                  /\ conns' = conns]_vars

\* A client that had sent its workspace has sent a heartbeat at a later
\* time, beside a second registered client.
C17_Witness ==
    /\ Len(vsCodeClients) = 2
    /\ \E i \in 1..Len(vsCodeClients) :
          /\ vsCodeClients[i].info.bytesReceived = 90 + 20
          /\ vsCodeClients[i].info.workspace = Text("projA", 5)
          /\ vsCodeClients[i].info.lastActive = clock
          /\ vsCodeClients[i].info.lastActive > vsCodeClients[i].info.connectedAt

DiagStep == diag' # diag

Listed(r) ==
    IF r.route = "/api/health" THEN r.connectedClients ELSE r.clients

C19_DiagnosticsReadOnly ==
    [][DiagStep =>
        /\ vsCodeClients' = vsCodeClients
        /\ clientIdCounter' = clientIdCounter
        /\ conns' = conns
        /\ diag'.route \in {"/api/health", "/api/clients", "/api/stats"}
        /\ diag'.route \in {"/api/health", "/api/clients"} =>
              diag'.clientCount = Len(vsCodeClients)
        /\ diag'.route = "/api/health" =>
              (diag'.vsCodeConnected <=> Len(vsCodeClients) > 0)
        /\ Len(Listed(diag')) = Len(vsCodeClients)
        /\ \A i \in 1..Len(vsCodeClients) :
              /\ Listed(diag')[i].id = vsCodeClients[i].id
              /\ diag'.route # "/api/stats" =>
                    Listed(diag')[i].lastActive = vsCodeClients[i].info.lastActive
              /\ diag'.route = "/api/stats" =>
                    Listed(diag')[i].bytesSent = vsCodeClients[i].info.bytesSent]_vars

\* The health summary counts the one client that is left after another has
\* disconnected, and reports the activity of a client that was sent a prompt.
C19_Witness ==
    /\ diag.route = "/api/health"
    /\ diag.clientCount = 1
    /\ clientIdCounter = 3
    /\ Len(vsCodeClients) = 1
    /\ vsCodeClients[1].info.bytesSent > WelcomeLength(vsCodeClients[1].id)
    /\ diag.connectedClients[1].lastActive = vsCodeClients[1].info.lastActive

(***************************************************************************)
(* C20: the step that takes up a termination request asks every registered *)
(* client's open connection to close with code 1000, then has the acceptor *)
(* and the HTTP listener closing, and does not end the process; the        *)
(* listener starts closing only when the acceptor no longer runs and no    *)
(* registered connection is open; and the process exits with code 0 only   *)
(* after a termination request, with the listener closed, the acceptor no  *)
(* longer running and no registered connection still open.                 *)
(***************************************************************************)
RegisteredConns(clients) == {clients[i].ws : i \in 1..Len(clients)}

C20_ShutdownOrder ==
    [][/\ (forceExitAt = 0 /\ forceExitAt' # 0) =>
              /\ \A c \in RegisteredConns(vsCodeClients) :
                    /\ conns'[c].readyState # "OPEN"
                    /\ IsOpen(conns, c) =>
                          (conns'[c].readyState = "CLOSING" /\ conns'[c].closeCode = 1000)
              /\ wssState' # "RUNNING"
              /\ httpServerState' # "listening"
              /\ proc' = proc
       /\ (httpServerState = "listening" /\ httpServerState' # "listening") =>
              /\ wssState' # "RUNNING"
              /\ \A c \in RegisteredConns(vsCodeClients') : conns'[c].readyState # "OPEN"
       /\ (proc.state = "running" /\ proc'.state = "exited" /\ proc'.code = 0) =>
              /\ forceExitAt # 0
              /\ httpServerState' = "closed"
              /\ wssState' # "RUNNING"
              /\ \A c \in RegisteredConns(vsCodeClients') : conns'[c].readyState # "OPEN"]_vars

\* The process has exited with code 0 after asking two registered clients
\* to close with code 1000; one of them has not finished closing.
C20_Witness ==
    /\ proc = [state |-> "exited", code |-> 0]
    /\ httpServerState = "closed"
    /\ \E a, b \in 1..Len(conns) :
          /\ a # b
          /\ conns[a].closeCode = 1000 /\ conns[a].readyState = "CLOSED"
          /\ conns[b].closeCode = 1000 /\ conns[b].readyState = "CLOSING"
          /\ conns[b].clientId \in Ids(vsCodeClients)

(***************************************************************************)
(* C21: once a termination request has been taken up, the process          *)
(* eventually exits, whether or not the listener or any connection ever    *)
(* finishes closing: the timer armed by the request exits with code 1      *)
(* after 10 s at the latest.                                               *)
(***************************************************************************)
C21_EventuallyExits == (forceExitAt # 0) ~> (proc.state = "exited")

\* The timer has ended the process, 10 s after the request, while the
\* listener and a registered connection were still closing.
C21_Witness ==
    /\ proc = [state |-> "exited", code |-> 1]
    /\ clock = forceExitAt
    /\ httpServerState = "closing"
    /\ \E c \in 1..Len(conns) :
          conns[c].readyState = "CLOSING" /\ conns[c].closeCode = NormalClosure

(***************************************************************************)
(* C22: one run of RetryHandler.execute invokes the action at most 3       *)
(* times; when the action resolves, execute returns that value and the     *)
(* action is not invoked again; when the third attempt fails, execute      *)
(* throws the error of that attempt at once, without a wait; a failure of  *)
(* attempt k (k = 1, 2) schedules a wait of 1000 * 2^(k-1) ms plus a       *)
(* jitter below 500 ms, and attempt k+1 starts only when that wait is over.*)
(***************************************************************************)
C22_RetrySchedule ==
    [][/\ exec'.calls <= 3
       /\ exec.phase \in {"returned", "thrown"} => exec' = exec
       /\ \A value \in FnValues : FnResolves(value) =>
              /\ exec'.phase = "returned" /\ exec'.settled = value
              /\ exec'.calls = exec.calls
       /\ \A error \in FnErrors, jitter \in Jitters : FnRejects(error, jitter) =>
              IF exec.calls = 3
              THEN /\ exec'.phase = "thrown" /\ exec'.settled = error
                   /\ exec'.due = exec.due
              ELSE /\ exec'.phase = "waiting"
                   /\ exec'.calls = exec.calls
                   /\ LET wait == exec'.due - clock
                          base == IF exec.calls = 1 THEN 1000 ELSE 2000
                      IN  base <= wait /\ wait < base + 500
       /\ exec'.calls > exec.calls /\ exec.calls > 0 =>
              /\ exec.phase = "waiting" /\ clock >= exec.due
              /\ exec'.calls = exec.calls + 1
       /\ exec'.phase = "thrown" => exec'.calls = 3]_vars

\* Three attempts failed with three different errors, the waits were
\* 1000 ms and 2499 ms, and execute threw the error of the third attempt.
C22_Witness ==
    /\ exec.phase = "thrown" /\ exec.calls = 3
    /\ exec.settled = "HTTP 500" /\ exec.lastError = "HTTP 500"
    /\ exec.due = 1 + 1000 + 2499
    /\ clock = exec.due

(***************************************************************************)
(* C23: a submission with a valid prompt whose url host is a loopback      *)
(* name, ends in .local, .test or .example, or is an address in            *)
(* 10.0.0.0/8, 172.16.0.0/12 or 192.168.0.0/16 is not refused with         *)
(* SECURITY_ERROR and, when an open client is registered, is written to    *)
(* one; a submission with any other url host is answered 403               *)
(* SECURITY_ERROR and written to no connection.                            *)
(***************************************************************************)
Octets(host) == Len(host) = 4 /\ \A i \in 1..4 : host[i].num /\ host[i].v <= 255

DevelopmentOrigin(host) ==
    \/ host \in {<<Name("localhost")>>, Ip4(127, 0, 0, 1), <<Name("::1")>>, <<Name("[::1]")>>}
    \/ Len(host) >= 2 /\ host[Len(host)] \in {Name("local"), Name("test"), Name("example")}
    \/ Octets(host) /\ host[1].v = 10
    \/ Octets(host) /\ host[1].v = 172 /\ host[2].v \in 16..31
    \/ Octets(host) /\ host[1].v = 192 /\ host[2].v = 168

C23_OriginCheck ==
    [][(SendStep /\ Truthy(resp'.req.url) /\ PromptAccepted(resp'.req.prompt)
                 /\ Untargeted(resp'.req)) =>
        IF DevelopmentOrigin(resp'.req.host)
        THEN /\ resp'.error # "SECURITY_ERROR"
             /\ (\E i \in 1..Len(vsCodeClients) : IsOpen(conns, vsCodeClients[i].ws))
                    => WrittenTo # {}
        ELSE /\ resp'.status = 403 /\ resp'.error = "SECURITY_ERROR"
             /\ WrittenTo = {}]_vars

(***************************************************************************)
(* C24: the id counter is 1 plus the number of successful registrations    *)
(* so far, and the n-th connection that was registered has id n: an        *)
(* attempt rejected by the loopback check consumes no id.                  *)
(***************************************************************************)
RegisteredBefore(c) == {b \in Accepted : b < c}

C24_CounterCountsRegistrations ==
    /\ clientIdCounter = 1 + Cardinality(Accepted)
    /\ \A c \in Accepted : conns[c].clientId = 1 + Cardinality(RegisteredBefore(c))

(***************************************************************************)
(* C25: when a window activates while a server process is serving on the   *)
(* ports, no further server process is spawned; at most one process        *)
(* serves at a time, and a window becomes active only with one serving.    *)
(***************************************************************************)
Activates(w) == windows[w].state = "inactive" /\ windows'[w].state # "inactive"

C25_SingleBroker ==
    [][/\ \A w \in WindowIds :
             (Activates(w) /\ Serving # {}) => Len(brokers') = Len(brokers)
       /\ Cardinality({p \in 1..Len(brokers') : brokers'[p].state = "serving"}) <= 1
       /\ \A w \in WindowIds :
             (windows[w].state = "starting" /\ windows'[w].state = "active") => Serving # {}]_vars

(***************************************************************************)
(* C26: each limiter's check prunes, counts and records in one step, so    *)
(* that the times a limiter holds inside its window are exactly the        *)
(* admissions made inside it, and however requests of one caller at the    *)
(* broker and prompts at the consumer interleave, no admission is the      *)
(* eleventh within its window (1000 ms at the broker, 60000 ms at the      *)
(* consumer).                                                              *)
(***************************************************************************)
AdmittedTimes(log, isAdmitted(_), from) ==
    LET kept == SelectSeq(log, LAMBDA e : isAdmitted(e) /\ e.time > from)
    IN  [i \in 1..Len(kept) |-> kept[i].time]

HttpAdmitted(e) == e.status = 0

PromptAdmitted(e) == e.admitted

C26_AtomicChecks ==
    /\ \A j \in 1..Len(prompts) :
          prompts[j].admitted =>
              Cardinality({k \in 1..j : /\ prompts[k].admitted
                                        /\ prompts[k].time > prompts[j].time - 60000}) <= 10
    /\ Filtered(promptRateLimiter, clock) = AdmittedTimes(prompts, PromptAdmitted, clock - 60000)
    /\ \A ip \in HttpIps :
          /\ \A j \in 1..Len(httpLog[ip]) :
                httpLog[ip][j].status = 0 =>
                    Cardinality({k \in 1..j : /\ httpLog[ip][k].status = 0
                                              /\ httpLog[ip][k].time > httpLog[ip][j].time - 1000})
                        <= 10
          /\ RecentRequests(requests[ip], clock) = AdmittedTimes(httpLog[ip], HttpAdmitted, clock - 1000)

\* Ten prompts were admitted and an eleventh refused in the same
\* millisecond, with a request at the broker handled in between.
C26_Witness ==
    /\ Len(prompts) = 11
    /\ \A k \in 1..10 : prompts[k].admitted
    /\ ~prompts[11].admitted
    /\ prompts[11].time = prompts[1].time
    /\ Served("127.0.0.1") = 1

(***************************************************************************)
(* C27: at every instant getRemainingRequests() is the ceiling minus the   *)
(* number of admitted prompts still inside the window, and not below 0;    *)
(* when canMakeRequest() is false, getResetTime() is positive, it is what  *)
(* handlePrompt reported to the refused prompt, and canMakeRequest() is    *)
(* true once that much time has passed with no admission in between.       *)
(***************************************************************************)
InsideWindow == {k \in 1..Len(prompts) : prompts[k].admitted /\ clock - prompts[k].time < 60000}

C27_QuotaQueries ==
    /\ GetRemainingRequests(promptRateLimiter, clock) = Max(0, 10 - Cardinality(InsideWindow))
    /\ \A j \in 1..Len(prompts) : ~prompts[j].admitted => prompts[j].resetTime > 0
    /\ ~CanMakeRequest(promptRateLimiter, clock) =>
          LET reset == GetResetTime(Filtered(promptRateLimiter, clock), clock)
          IN  /\ reset > 0
              /\ CanMakeRequest(promptRateLimiter, clock + reset)

\* A prompt was refused one millisecond before the oldest admission left the
\* window, and the limiter is still closed at this instant.
C27_Witness ==
    /\ Len(prompts) = 11
    /\ ~prompts[11].admitted /\ prompts[11].resetTime = 1
    /\ ~CanMakeRequest(promptRateLimiter, clock)
    /\ GetRemainingRequests(promptRateLimiter, clock) = 0
    /\ CanMakeRequest(promptRateLimiter, clock + 1)

(***************************************************************************)
(* C28: a submission answered with VALIDATION_ERROR or SECURITY_ERROR      *)
(* leaves the caller's rate-limit quota as it was, and a submission        *)
(* without a valid prompt is answered VALIDATION_ERROR whatever the        *)
(* caller's quota.                                                         *)
(***************************************************************************)
Submitted(ip) == Len(httpLog'[ip]) = Len(httpLog[ip]) + 1

C28_ValidationBeforeLimiter ==
    [][\A ip \in {"127.0.0.1"} :
          Submitted(ip) =>
              /\ resp'.error \in {"VALIDATION_ERROR", "SECURITY_ERROR"} =>
                     requests'[ip] = requests[ip]
              /\ ~PromptAccepted(resp'.req.prompt) => resp'.error = "VALIDATION_ERROR"]_vars

(***************************************************************************)
(* C29: a submission whose write to the chosen connection throws is        *)
(* answered 500 INTERNAL_ERROR, whether it named its target or was         *)
(* auto-routed.                                                            *)
(***************************************************************************)
WriteAttempted(body) == SendResponse(body, vsCodeClients, conns).writeTo # {}

C29_WriteFailureIsInternal ==
    [][\A body \in RouteBodies :
          (PostSendThrowing(body) /\ WriteAttempted(body)) =>
              resp'.status = 500 /\ resp'.error = "INTERNAL_ERROR"]_vars

NewSocket ==
    [readyState |-> "CONNECTING", opened |-> FALSE, conn |-> Len(conns) + 1,
     read |-> 0, written |-> 0]

Due == {timers[i] : i \in 1..Len(timers)}

MinDue == CHOOSE d \in Due : \A e \in Due : d <= e

\* The first of the timers that are due soonest.
NextTimer ==
    CHOOSE i \in 1..Len(timers) :
        /\ timers[i] = MinDue
        /\ \A j \in 1..(i - 1) : timers[j] # MinDue

RemoveAt(seq, i) == SubSeq(seq, 1, i - 1) \o SubSeq(seq, i + 1, Len(seq))

\* ws.close(): a socket that is connecting or open starts closing.
WsClose(socks, s) ==
    IF socks[s].readyState \in {"CONNECTING", "OPEN"}
    THEN [socks EXCEPT ![s].readyState = "CLOSING"]
    ELSE socks

\* The guard of connectToServer when it looks at OPEN only.
IsConnectedOnly(socks, s) == s # 0 /\ socks[s].readyState = "OPEN"

\* ws && (ws.readyState === OPEN || ws.readyState === CONNECTING)
IsConnectedOrConnecting(socks, s) ==
    s # 0 /\ socks[s].readyState \in {"OPEN", "CONNECTING"}

(***************************************************************************)
(* connectToServer(): nothing when deactivated; a debug line when the      *)
(* current socket is open or connecting; otherwise validateUrl, which      *)
(* throws into the catch for a wsUrl that is not a localhost URL, and then *)
(* a new WebSocket that ws names from here on.                             *)
(***************************************************************************)
ConnectToServer(e, socks, urlIsLocal) ==
    IF ~e.isActivated
    THEN [ext |-> e, sockets |-> socks]
    ELSE IF IsConnectedOrConnecting(socks, e.ws)
    THEN [ext |-> e, sockets |-> socks]
    ELSE IF ~urlIsLocal
    THEN [ext |-> e, sockets |-> socks]
    ELSE [ext |-> [e EXCEPT !.ws = Len(socks) + 1],
          sockets |-> Append(socks, NewSocket)]

\* activate(), up to the await of startBridgeServer.
ActivateConsumer ==
    /\ ext.lifecycle = "loaded"
    /\ ext' = [ext EXCEPT !.isActivated = TRUE, !.lifecycle = "activate",
                          !.starting = TRUE]
    /\ UNCHANGED <<sockets, timers, extLog>>
    /\ UNCHANGED <<clock, ticks, brokerVars, exec, windowVars, promptVars>>

\* startBridgeServer resolved: the first connection is due in a second.
ServerStarted ==
    /\ ext.starting
    /\ ext' = [ext EXCEPT !.starting = FALSE]
    /\ timers' = Append(timers, clock + ConnectDelay)
    /\ UNCHANGED <<sockets, extLog>>
    /\ UNCHANGED <<clock, ticks, brokerVars, exec, windowVars, promptVars>>

\* startBridgeServer rejected: the catch logs and nothing is scheduled.
ServerStartFailed ==
    /\ ext.starting
    /\ ext' = [ext EXCEPT !.starting = FALSE]
    /\ UNCHANGED <<sockets, timers, extLog>>
    /\ UNCHANGED <<clock, ticks, brokerVars, exec, windowVars, promptVars>>

\* deactivate(): isActivated = false, then ws.close() and ws = null.
DeactivateResult(e, socks) ==
    [ext |-> [e EXCEPT !.isActivated = FALSE, !.lifecycle = "deactivate", !.ws = 0],
     sockets |-> IF e.ws # 0 THEN WsClose(socks, e.ws) ELSE socks]

DeactivateConsumer ==
    /\ ext.lifecycle = "activate"
    /\ LET r == DeactivateResult(ext, sockets)
       IN  /\ ext' = r.ext
           /\ sockets' = r.sockets
    /\ UNCHANGED <<timers, extLog>>
    /\ UNCHANGED <<clock, ticks, brokerVars, exec, windowVars, promptVars>>

\* The command ai-bridge.connect.
ConnectCommand(urlIsLocal) ==
    /\ IF ~ext.isActivated
       THEN UNCHANGED <<ext, sockets, extLog>>
       ELSE LET r == ConnectToServer([ext EXCEPT !.commands = @ + 1], sockets,
                                     urlIsLocal)
            IN  /\ ext' = r.ext
                /\ sockets' = r.sockets
                /\ extLog' = Append(extLog, "connect command")
    /\ UNCHANGED timers
    /\ UNCHANGED <<clock, ticks, brokerVars, exec, windowVars, promptVars>>

\* connectionAttempts = 0 in the command ai-bridge.reconnect.
ReconnectResetsCount(e) == [e EXCEPT !.connectionAttempts = 0]

\* The command ai-bridge.reconnect.
ReconnectCommand(urlIsLocal) ==
    /\ IF ~ext.isActivated
       THEN UNCHANGED <<ext, sockets, extLog>>
       ELSE LET closed == IF ext.ws # 0 THEN WsClose(sockets, ext.ws) ELSE sockets
                r == ConnectToServer(
                         ReconnectResetsCount([ext EXCEPT !.commands = @ + 1]),
                         closed, urlIsLocal)
            IN  /\ ext' = r.ext
                /\ sockets' = r.sockets
                /\ extLog' = Append(extLog, "reconnect command")
    /\ UNCHANGED timers
    /\ UNCHANGED <<clock, ticks, brokerVars, exec, windowVars, promptVars>>

\* A timer of the consumer fires: both callbacks come to connectToServer().
TimerFires(urlIsLocal) ==
    /\ timers # <<>>
    /\ MinDue <= clock
    /\ LET r == ConnectToServer(ext, sockets, urlIsLocal)
       IN  /\ ext' = r.ext
           /\ sockets' = r.sockets
    /\ timers' = RemoveAt(timers, NextTimer)
    /\ UNCHANGED extLog
    /\ UNCHANGED <<clock, ticks, brokerVars, exec, windowVars, promptVars>>

\* Time passes until the next timer of the consumer is due.
TickToTimer ==
    /\ timers # <<>>
    /\ MinDue > clock
    /\ clock' = MinDue
    /\ ticks' = ticks + 1
    /\ UNCHANGED <<brokerVars, extVars>>

\* The broker's acceptor is handed the connection of a connecting socket.
Accept ==
    /\ \E s \in 1..Len(sockets) :
          /\ sockets[s].readyState = "CONNECTING"
          /\ sockets[s].conn = Len(conns) + 1
    /\ Connection("::ffff:127.0.0.1")

\* Handlers that run whether or not the extension is activated.
HandlerRunsAlways(e) == TRUE

\* if (!isActivated) return, at the head of each handler of the socket.
HandlerRuns(e) == e.isActivated

(***************************************************************************)
(* ws.on('open'): the socket is OPEN when the event is emitted; the        *)
(* handler zeroes connectionAttempts and writes client-info to the socket  *)
(* that ws names.                                                          *)
(***************************************************************************)
OnOpenEvent(s) ==
    /\ sockets[s].readyState = "CONNECTING"
    /\ sockets[s].conn <= Len(conns)
    /\ conns[sockets[s].conn].handlers
    /\ LET opened == [sockets EXCEPT ![s].readyState = "OPEN", ![s].opened = TRUE]
       IN  IF ~HandlerRuns(ext)
           THEN /\ sockets' = opened
                /\ UNCHANGED <<ext, extLog>>
           ELSE /\ ext' = [ext EXCEPT !.connectionAttempts = 0]
                /\ extLog' = Append(extLog, "connection established")
                /\ sockets' = IF opened[ext.ws].readyState = "OPEN"
                              THEN [opened EXCEPT ![ext.ws].written = @ + 1]
                              ELSE opened
    /\ UNCHANGED timers
    /\ UNCHANGED <<clock, ticks, brokerVars, exec, windowVars, promptVars>>

\* A close handler that schedules a reconnection whatever the count.
ShouldReconnectAlways(attempts) == TRUE

\* connectionAttempts < MAX_CONNECTION_ATTEMPTS, after the increment.
ShouldReconnect(attempts) == attempts < MaxConnectionAttempts

(***************************************************************************)
(* ws.on('close'): the socket is CLOSED when the event is emitted, whether *)
(* the handshake failed, the broker closed or ws.close() was called; the   *)
(* handler counts the close and schedules connectToServer while the count  *)
(* is below the maximum.                                                   *)
(***************************************************************************)
OnCloseEvent(s) ==
    /\ sockets[s].readyState # "CLOSED"
    /\ sockets' = [sockets EXCEPT ![s].readyState = "CLOSED"]
    /\ IF ~HandlerRuns(ext)
       THEN UNCHANGED <<ext, timers, extLog>>
       ELSE /\ ext' = [ext EXCEPT !.connectionAttempts = @ + 1]
            /\ IF ShouldReconnect(ext.connectionAttempts + 1)
               THEN timers' = Append(timers, clock + ReconnectDelay)
               ELSE UNCHANGED timers
            /\ extLog' = Append(extLog, "connection closed")
    /\ UNCHANGED <<clock, ticks, brokerVars, exec, windowVars, promptVars>>

\* SecurityValidator.validatePrompt of the consumer: "" when it returns true.
ConsumerValidatePrompt(data) ==
    IF ~Truthy(data.prompt) \/ data.prompt.t # "string"
    THEN "Invalid prompt: missing or invalid prompt field"
    ELSE IF data.prompt.n = 0
         THEN "Invalid prompt: prompt cannot be empty"
         ELSE IF data.prompt.n > ConsumerMaxPromptLength
              THEN "Invalid prompt: exceeds 50000 character limit"
              ELSE ""

(***************************************************************************)
(* ws.on('message'): the next envelope the broker wrote to the socket's    *)
(* connection is emitted.  A prompt envelope is validated and handed to    *)
(* handlePrompt; a validation error is caught and logged.                  *)
(***************************************************************************)
OnMessageEvent(s) ==
    /\ sockets[s].opened
    /\ sockets[s].readyState \in {"OPEN", "CLOSING"}
    /\ sockets[s].read < Len(conns[sockets[s].conn].sent)
    /\ sockets' = [sockets EXCEPT ![s].read = @ + 1]
    /\ LET message == conns[sockets[s].conn].sent[sockets[s].read + 1]
       IN  IF /\ HandlerRuns(ext)
              /\ message.type = "prompt"
              /\ ConsumerValidatePrompt(message.data) = ""
           THEN RateLimitCheck
           ELSE UNCHANGED promptVars
    /\ UNCHANGED <<ext, timers, extLog>>
    /\ UNCHANGED <<clock, ticks, brokerVars, exec, windowVars>>

\* The broker's side of a socket that is closing or closed goes away.
ConsumerGone(c) ==
    /\ \E s \in 1..Len(sockets) :
          sockets[s].conn = c /\ sockets[s].readyState \in {"CLOSING", "CLOSED"}
    /\ OnClose(c)

ConsumerBodies ==
    {Body(Str(n), NoUrl[1], NoUrl[2], Undefined) :
        n \in {ConsumerMaxPromptLength, ConsumerMaxPromptLength + 1}}

(***************************************************************************)
(* The reconnection loop: activation, the reconnect command, the timers    *)
(* and the events of the sockets, with a broker that accepts a bounded     *)
(* number of handshakes and refuses the rest.                              *)
(***************************************************************************)
NextReconnect ==
    \/ ActivateConsumer
    \/ ServerStarted
    \/ /\ ext.commands < MaxCommands
       /\ Len(sockets) < MaxSockets
       /\ ReconnectCommand(TRUE)
    \/ /\ Len(sockets) < MaxSockets
       /\ TimerFires(TRUE)
    \/ TickToTimer
    \/ /\ Len(conns) < MaxAccepts
       /\ Accept
    \/ \E s \in 1..Len(sockets) : OnOpenEvent(s)
    \/ \E s \in 1..Len(sockets) : OnCloseEvent(s)

SpecReconnect == Init /\ [][NextReconnect]_vars

(***************************************************************************)
(* The commands against the timers and the events: the user runs connect   *)
(* and reconnect at any moment, with a wsUrl that is a localhost URL or    *)
(* not, while sockets open and close and reconnections fall due.           *)
(***************************************************************************)
NextCommands ==
    \/ ActivateConsumer
    \/ ServerStarted
    \/ /\ ext.commands < MaxManualCommands
       /\ \E urlIsLocal \in BOOLEAN : ConnectCommand(urlIsLocal)
       /\ Len(sockets') <= MaxCommandSockets
    \/ /\ ext.commands < MaxManualCommands
       /\ ReconnectCommand(TRUE)
       /\ Len(sockets') <= MaxCommandSockets
    \/ /\ TimerFires(TRUE)
       /\ Len(sockets') <= MaxCommandSockets
    \/ TickToTimer
    \/ Accept
    \/ \E s \in 1..Len(sockets) : OnOpenEvent(s)
    \/ \E s \in 1..Len(sockets) : OnCloseEvent(s)

SpecCommands == Init /\ [][NextCommands]_vars

(***************************************************************************)
(* The consumer from activation to deactivation with the broker            *)
(* dispatching prompts to it: few sockets, every event of each.            *)
(***************************************************************************)
NextDelivery ==
    \/ ActivateConsumer
    \/ ServerStarted
    \/ ServerStartFailed
    \/ DeactivateConsumer
    \/ /\ Len(sockets) < MaxDeliverySockets
       /\ \E urlIsLocal \in BOOLEAN : TimerFires(urlIsLocal)
    \/ TickToTimer
    \/ Accept
    \/ \E s \in 1..Len(sockets) : OnOpenEvent(s)
    \/ \E s \in 1..Len(sockets) : OnCloseEvent(s)
    \/ \E s \in 1..Len(sockets) : OnMessageEvent(s)
    \/ \E c \in 1..Len(conns) : ConsumerGone(c)
    \/ /\ nSends < MaxDeliveries
       /\ \E body \in ConsumerBodies : PostSend(body)

SpecDelivery == Init /\ [][NextDelivery]_vars

(***************************************************************************)
(* One consumer at most, and one producer whose submission the broker      *)
(* answers as its state at the moment of each attempt dictates: the        *)
(* consumer may connect and go away between the attempts.                  *)
(***************************************************************************)
NextReject ==
    \/ Len(conns) < MaxRejectConns /\ Connection("::ffff:127.0.0.1")
    \/ \E c \in 1..Len(conns) : OnClose(c)
    \/ ticks < MaxRejectTicks /\ TickToDeadline
    \/ \E c \in 1..Len(conns) : conns[c].handlers /\ StartSend(Int2(conns[c].clientId))
    \/ \E k \in 1..Len(net) : Admit(k)
    \/ \E k \in 1..Len(net) : Handle(k)
    \/ \E k \in 1..Len(net), jitter \in Jitters : Receive(k, jitter)
    \/ \E jitter \in Jitters : FetchTimeout(jitter)
    \/ BackoffElapsed

SpecReject == Init /\ [][NextReject]_vars

(***************************************************************************)
(* C31: what a connection has been sent only grows at its end, by one      *)
(* envelope per step at most; on a registered connection the first         *)
(* envelope is the connection envelope and every later one is a prompt     *)
(* envelope; the prompt envelopes stand in the order in which their        *)
(* submissions were handled, each submission at most once, and an envelope *)
(* added by a step is that of the submission the step handled.             *)
(***************************************************************************)
IsPrefix(a, b) == Len(a) <= Len(b) /\ SubSeq(b, 1, Len(a)) = a

C32_WritesOnlyToOpen ==
    [][\A c \in WrittenTo :
          /\ conns[c].readyState = "OPEN"
          /\ conns[c].handlers
          /\ conns[c].closeCode = 0
          /\ \E i \in 1..Len(vsCodeClients) :
                vsCodeClients[i].ws = c /\ vsCodeClients[i].id = conns[c].clientId
          /\ proc.state = "running"]_vars

\* After a termination request a submission was answered without a write:
\* the only registered client had been asked to close with code 1000 after
\* it had been sent a prompt.
C32_Witness ==
    /\ forceExitAt # 0
    /\ nSends = 2
    /\ ~resp.success
    /\ \E c \in 1..Len(conns) :
          /\ conns[c].readyState = "CLOSING" /\ conns[c].closeCode = NormalClosure
          /\ conns[c].clientId \in Ids(vsCodeClients)
          /\ Len(conns[c].sent) = 2

(***************************************************************************)
(* C33: when an untargeted submission is routed and the connection of the  *)
(* most recently active registered client (the earliest registered among   *)
(* equals) is not OPEN, nothing is written and the answer is 200 with      *)
(* success false, clientCount 0 and targetClientId null, whether or not    *)
(* another registered client has an OPEN connection.                       *)
(***************************************************************************)
Routed(r) == r.status = 200

MostRecentEntry(clients) == Minimum(MostRecentSet(clients))

C33_NoFallback ==
    [][(SendStep /\ Untargeted(resp'.req) /\ Routed(resp') /\ Len(vsCodeClients) > 0
          /\ ~IsOpen(conns, vsCodeClients[MostRecentEntry(vsCodeClients)].ws)) =>
        /\ WrittenTo = {}
        /\ ~resp'.success
        /\ resp'.clientCount = 0
        /\ resp'.targetClientId = Null]_vars

\* An untargeted submission was answered with success false while a client
\* with an OPEN connection was registered beside the closing one.
C33_Witness ==
    /\ nSends = 1 /\ Untargeted(resp.req)
    /\ resp.status = 200 /\ ~resp.success /\ resp.targetClientId = Null
    /\ \E i, j \in 1..Len(vsCodeClients) :
          /\ conns[vsCodeClients[i].ws].readyState = "CLOSING"
          /\ conns[vsCodeClients[j].ws].readyState = "OPEN"
          /\ Len(conns[vsCodeClients[j].ws].sent) = 1

\* The envelope that the message event of socket s hands over in this step.
Emitted(s) == conns[sockets[s].conn].sent[sockets[s].read + 1]

\* The message handler of socket s runs in this step, on a prompt envelope.
PromptEmitted(s) ==
    /\ s <= Len(sockets')
    /\ sockets'[s].read = sockets[s].read + 1
    /\ ext.isActivated
    /\ Emitted(s).type = "prompt"

(***************************************************************************)
(* C34: every prompt envelope that the broker dispatched, and so           *)
(* acknowledged to the producer as sent, is handed to handlePrompt when    *)
(* the activated consumer receives it: none is dropped by the consumer's   *)
(* validation.                                                             *)
(***************************************************************************)
C34_DispatchedIsHandled ==
    [][\A s \in 1..Len(sockets) :
           PromptEmitted(s) => Len(prompts') = Len(prompts) + 1]_vars

\* The producer reads the broker's rejection of exchange k in this step.
RejectionRead(k) ==
    /\ net[k].stage = "response"
    /\ net'[k].stage = "read"
    /\ net[k].status # 200

\* The middleware decides on exchange k in this step.
Decided(k) == net[k].stage = "request" /\ net'[k].stage # "request"

\* The timestamps stored for the producer's address that lie inside the window.
Quota(reqs) ==
    Cardinality({i \in 1..Len(reqs["127.0.0.1"]) :
                     reqs["127.0.0.1"][i] > clock - WindowMs})

(***************************************************************************)
(* C35: a rejection by the broker is retried like any other failure: the   *)
(* first and the second rejected attempt are followed by a backoff, the    *)
(* error is shown at the third, when exactly three requests have been      *)
(* issued, one per attempt; and every attempt that the limiter admits adds *)
(* one timestamp to the caller's quota, one that it refuses adds none.     *)
(***************************************************************************)
C35_RejectionsAreRetried ==
    [][/\ \A k \in 1..Len(net) :
             RejectionRead(k) =>
                 IF prod.attempt < MaxAttempts
                 THEN prod'.phase = "backoff"
                 ELSE /\ prod'.phase = "failed"
                      /\ Len(net) = MaxAttempts
                      /\ \A a \in 1..MaxAttempts : net[a].attempt = a
       /\ \A k \in 1..Len(net) :
             Decided(k) =>
                 IF net'[k].stage = "parsed"
                 THEN Quota(requests') = Quota(requests) + 1
                 ELSE requests' = requests
       /\ (prod'.phase = "failed" /\ prod.phase # "failed")
              => \/ prod.attempt = MaxAttempts
                 \/ \E k \in 1..Len(net) :
                       net[k].stage = "response" /\ net[k].status = 200]_vars

\* The error is shown after three rejections, each attempt having been admitted.
C35_Witness ==
    /\ prod.phase = "failed"
    /\ Len(net) = MaxAttempts
    /\ \A k \in 1..MaxAttempts : net[k].stage = "read" /\ net[k].status \in {404, 503}
    /\ \E k \in 1..MaxAttempts : net[k].status = 404
    /\ Len(SelectSeq(httpLog["127.0.0.1"], HttpAdmitted)) = MaxAttempts

\* How many of the lines after the last line among `resets` say that a
\* connection closed.
RECURSIVE ClosesSince(_, _)
ClosesSince(log, resets) ==
    IF log = <<>> \/ log[Len(log)] \in resets
    THEN 0
    ELSE ClosesSince(SubSeq(log, 1, Len(log) - 1), resets)
             + (IF log[Len(log)] = "connection closed" THEN 1 ELSE 0)

\* The close handler runs to its end in this step.
CloseHandled == extLog' = Append(extLog, "connection closed")

\* The open handler runs to its end in this step.
OpenHandled == extLog' = Append(extLog, "connection established")

\* The reconnection that a close handled in this step schedules.
Scheduled == timers' = Append(timers, clock + ReconnectDelay)

(***************************************************************************)
(* C36 as stated: a handled close schedules a reconnection 5 s later when  *)
(* fewer than 5 closes have been handled since the last open, and none     *)
(* when 5 or more have; a handled open zeroes the count.                   *)
(***************************************************************************)
C36_AsClaimed ==
    [][/\ CloseHandled =>
              IF ClosesSince(extLog', {"connection established"})
                     < MaxConnectionAttempts
              THEN Scheduled
              ELSE timers' = timers
       /\ OpenHandled => ext'.connectionAttempts = 0]_vars

(***************************************************************************)
(* C36, amended: connectionAttempts is the number of closes handled since  *)
(* the last open or reconnect command; a handled close schedules a         *)
(* reconnection 5 s later when that number is below 5 and none when it has *)
(* reached 5; a handled open and a reconnect command zero the count; and   *)
(* nothing but such a close, and the end of activation, sets a timer.      *)
(***************************************************************************)
C36_BoundedReconnection ==
    [][/\ CloseHandled =>
              LET n == ClosesSince(extLog', {"connection established",
                                             "reconnect command"})
              IN  /\ ext'.connectionAttempts = n
                  /\ IF n < MaxConnectionAttempts
                     THEN Scheduled
                     ELSE timers' = timers
       /\ OpenHandled => ext'.connectionAttempts = 0
       /\ Len(timers') > Len(timers) =>
              \/ CloseHandled /\ ext'.connectionAttempts < MaxConnectionAttempts
              \/ ext.starting]_vars

\* Five closes in a row after a reconnect command: the count is 5 and no
\* timer is pending.
C36_Witness ==
    /\ ext.connectionAttempts = MaxConnectionAttempts
    /\ timers = <<>>
    /\ \E i \in 1..Len(extLog) : extLog[i] = "reconnect command"
    /\ \E i \in 1..Len(extLog) : extLog[i] = "connection established"
    /\ ClosesSince(extLog, {"connection established", "reconnect command"})
           = MaxConnectionAttempts

\* The sockets of the consumer that are connecting or open.
Live == {s \in 1..Len(sockets) : sockets[s].readyState \in {"CONNECTING", "OPEN"}}

(***************************************************************************)
(* C37: at most one WebSocket of the consumer is CONNECTING or OPEN, and   *)
(* it is the one that ws names.                                            *)
(***************************************************************************)
C37_AtMostOneLive ==
    /\ Cardinality(Live) <= 1
    /\ \A s \in Live : ext.ws = s

\* Both commands have run, a reconnection is pending, one socket has been
\* closed by the reconnect command and its successor is connecting or open.
C37_Witness ==
    /\ \E i \in 1..Len(extLog) : extLog[i] = "connect command"
    /\ \E i \in 1..Len(extLog) : extLog[i] = "reconnect command"
    /\ timers # <<>>
    /\ Len(sockets) = 2
    /\ sockets[1].opened
    /\ Live = {2}

\* deactivate() has returned.
Deactivated == ext.lifecycle = "deactivate"

(***************************************************************************)
(* C38: once deactivate() has returned, no step creates a socket, handles  *)
(* a prompt, touches isActivated, ws or connectionAttempts, or logs a      *)
(* line of a handler; a timer may fire but none is set, except the one     *)
(* that an activation still awaiting its server sets, which is not a       *)
(* reconnection and finds isActivated false when it fires.                 *)
(***************************************************************************)
C38_DeactivatedIsInert ==
    [][Deactivated =>
          /\ Len(sockets') = Len(sockets)
          /\ \A s \in 1..Len(sockets) :
                sockets'[s].readyState # sockets[s].readyState
                    => sockets'[s].readyState = "CLOSED"
          /\ promptRateLimiter' = promptRateLimiter
          /\ prompts' = prompts
          /\ [ext' EXCEPT !.starting = FALSE] = [ext EXCEPT !.starting = FALSE]
          /\ extLog' = extLog
          /\ Len(timers') > Len(timers) => ext.starting]_vars

\* After deactivate() a prompt of admissible length was received and not
\* handled, and the socket closed without the close being counted.
C38_Witness ==
    /\ Deactivated
    /\ prompts = <<>>
    /\ ext.connectionAttempts = 0
    /\ \E s \in 1..Len(sockets) :
          /\ sockets[s].readyState = "CLOSED"
          /\ sockets[s].read = 2
          /\ conns[sockets[s].conn].sent[2].data.prompt.n = ConsumerMaxPromptLength
    /\ \A i \in 1..Len(extLog) : extLog[i] # "connection closed"

\* The limiter refuses a request of ip in this step.
Refused(ip) ==
    /\ Len(httpLog'[ip]) = Len(httpLog[ip]) + 1
    /\ httpLog'[ip][Len(httpLog'[ip])].status = 429

(***************************************************************************)
(* C39: the list stored for a key never holds more than maxRequests        *)
(* timestamps, and a check that the limiter refuses leaves every stored    *)
(* list as it was.                                                         *)
(***************************************************************************)
C39_StoredListBounded ==
    [][/\ \A ip \in HttpIps : Len(requests'[ip]) <= MaxRequests
       /\ \A ip \in HttpIps : Refused(ip) => requests' = requests]_vars

\* The list is full and the last check, which was refused, has left it so.
C39_Witness ==
    /\ Len(requests["127.0.0.1"]) = MaxRequests
    /\ httpLog["127.0.0.1"] # <<>>
    /\ httpLog["127.0.0.1"][Len(httpLog["127.0.0.1"])].status = 429

=============================================================================
